---- MODULE Spec2Model ----
(***************************************************************************)
(* MediPredict / MedAlert: the dose-log store, the feature builder and the *)
(* risk estimator, as the Streamlit variants of the repository implement   *)
(* them.  Three variants are modelled, selected by the variable app:       *)
(*   "15"     src/15.py     sqlite store keyed by user id, safe-rerun flag *)
(*   "12medi" src/12medi.py sqlite store keyed by username, slot labels    *)
(*   "4medi"  src/4medi.py  in-memory reminders with a taken field         *)
(* and, for the store helpers of src/12medi.py called on their own,        *)
(*   "store"  the functions create_user / add_med / log_dose / get_logs.   *)
(***************************************************************************)
EXTENDS Integers, Sequences, FiniteSets, TLC

VARIABLES app, users, meds, doses, ses, now, insight, last, reminders

vars == <<app, users, meds, doses, ses, now, insight, last, reminders>>

(* ------------------------------ bounds --------------------------------- *)
MaxMeds == 2
MaxDoses == 2
MaxPatients == 2
\* The recursive calls of main() a script run of the page router is followed for.
MaxCalls == 3

Sessions == {"s1", "s2"}

\* The clock readings of a run (see day_name, hour); later readings are larger.
\* now is the latest reading stored in the dose log.
Times == {0, 1}
Usernames == {"", "ann", "bob"}
Passwords == {"", "pw"}
MedNames == {"", "Metformin"}
Schedules == {"Morning"}
Statuses == {"Taken", "Missed"}

(* ------------------------------ helpers -------------------------------- *)
Range(s) == {s[i] : i \in 1..Len(s)}

RECURSIVE SetToSeq(_)
SetToSeq(S) == IF S = {} THEN <<>>
               ELSE LET x == CHOOSE y \in S : TRUE IN <<x>> \o SetToSeq(S \ {x})

\* st.session_state.uid = None
NoUid == 0

\* hashlib.sha256(pw.encode()).hexdigest(): a digest, never the password itself
hash_pw(pw) == <<"sha256", pw>>

\* The clock readings datetime.now() can return: reading t is 36*t hours after
\* Monday 08:00 (Mon 08:00, Tue 20:00, Thu 08:00, ...).
DayNames == <<"Monday", "Tuesday", "Wednesday", "Thursday", "Friday", "Saturday", "Sunday">>
dayofweek(ts) == ((36 * ts + 8) \div 24) % 7
day_name(ts) == DayNames[dayofweek(ts) + 1]
hour(ts) == 8 + 12 * (ts % 2)

\* INTEGER PRIMARY KEY AUTOINCREMENT: one more than the largest id ever used;
\* no row is ever deleted, so that is the number of rows plus one.
NextId(table) == Len(table) + 1

\* The rows handed to fit by a script run in which fit was not called.
NoFit == -1

NoInsight == [op |-> "none", user |-> NoUid, logs |-> <<>>, outcome |-> "none",
              heat |-> {}, est |-> "Unfit", classes |-> {}, risk |-> <<>>,
              fit_rows |-> NoFit, y |-> <<>>]
NoLast == [op |-> "init", ses |-> "none", user |-> NoUid, med |-> 0,
           status |-> "none", id |-> 0, out |-> "none", name |-> "", pw |-> ""]

(* ------------------- the estimator (scikit-learn pipeline) -------------- *)
\* The estimator before fit.
Unfit == [state |-> "Unfit", categories |-> {}, handle_unknown |-> "error", classes |-> {}]

\* OneHotEncoder.transform of one categorical value: the indicator vector over
\* the categories seen by fit; a value not seen by fit is all-zero under
\* handle_unknown="ignore" and an error under the default handle_unknown="error".
OneHotEncoder_transform(est, v) ==
    IF v \in est.categories
    THEN [ok |-> TRUE, vec |-> [c \in est.categories |-> IF c = v THEN 1 ELSE 0]]
    ELSE IF est.handle_unknown = "ignore"
         THEN [ok |-> TRUE, vec |-> [c \in est.categories |-> 0]]
         ELSE [ok |-> FALSE, vec |-> <<>>]

\* Mutant of LogisticRegression_fit: a single class is fitted all the same.
LogisticRegression_fit_AnyClasses(est, y) ==
    [error |-> "none", est |-> [est EXCEPT !.state = "Fit", !.classes = Range(y)],
     rows |-> Len(y), y |-> y]

\* LogisticRegression.fit keeps the classes of y and refuses a y with fewer than
\* two classes (ValueError); fit never yields an estimator in that case. rows
\* is the number of rows fit was called with, y the label column it was given.
LogisticRegression_fit(est, y) ==
    IF Cardinality(Range(y)) < 2
    THEN [error |-> "ValueError", est |-> Unfit, rows |-> Len(y), y |-> y]
    ELSE [error |-> "none", est |-> [est EXCEPT !.state = "Fit", !.classes = Range(y)],
          rows |-> Len(y), y |-> y]

\* Pipeline([ColumnTransformer([OneHotEncoder(...)], remainder="passthrough"),
\*           LogisticRegression()]).fit(X, y)
Pipeline_fit(cats, y, handle_unknown) ==
    LogisticRegression_fit([state |-> "Unfit", categories |-> Range(cats),
                            handle_unknown |-> handle_unknown, classes |-> {}], y)

\* Pipeline.predict_proba of one row (categorical value cat, numeric columns num).
predict_proba(est, cat, num) ==
    IF est.state # "Fit"
    THEN [kind |-> "NotFittedError", vec |-> <<>>, cat |-> cat, num |-> num]
    ELSE LET enc == OneHotEncoder_transform(est, cat)
         IN IF enc.ok THEN [kind |-> "prob", vec |-> enc.vec, cat |-> cat, num |-> num]
            ELSE [kind |-> "ValueError", vec |-> <<>>, cat |-> cat, num |-> num]

\* The first error among the predictions of a frame, "Risk" when there is none.
RiskOutcome(risk) ==
    IF \E i \in 1..Len(risk) : risk[i].kind # "prob"
    THEN risk[CHOOSE i \in 1..Len(risk) :
                /\ risk[i].kind # "prob"
                /\ \A j \in 1..(i - 1) : risk[j].kind = "prob"].kind
    ELSE "Risk"

(* ------------------------------ src/15.py ------------------------------- *)
SliderHours == {8, 20}
Days == {day_name(t) : t \in Times}

Session15 == [uid |-> NoUid, page |-> "home", rerun |-> FALSE]

\* SELECT * FROM meds WHERE user_id=?
MedsOf15(uid) == SelectSeq(meds, LAMBDA m : m.user = uid)

\* SELECT * FROM doses WHERE user_id=?
ListByUser15(uid) == SelectSeq(doses, LAMBDA e : e.user = uid)

\* Mutant of HeatRows15: the frame is grouped by day and hour only, the status
\* of a row is that of the group's first event.
HeatRows15_ByDayHour(df) ==
    { [day |-> k[1], hour |-> k[2],
       status |-> df[CHOOSE i \in 1..Len(df) :
                       /\ <<day_name(df[i].ts), hour(df[i].ts)>> = k
                       /\ \A j \in 1..(i - 1) :
                             <<day_name(df[j].ts), hour(df[j].ts)>> # k].status,
       count |-> Cardinality({i \in 1..Len(df) :
                                <<day_name(df[i].ts), hour(df[i].ts)>> = k})] :
      k \in {<<day_name(df[i].ts), hour(df[i].ts)>> : i \in 1..Len(df)} }

\* df.groupby(["day","hour","status"]).size().reset_index(name="count")
HeatKey15(e) == <<day_name(e.ts), hour(e.ts), e.status>>
HeatRows15(df) ==
    { [day |-> k[1], hour |-> k[2], status |-> k[3],
       count |-> Cardinality({i \in 1..Len(df) : HeatKey15(df[i]) = k})] :
      k \in {HeatKey15(df[i]) : i \in 1..Len(df)} }

\* sorted(df.day.unique()): the options of the Day selectbox
DayOptions15(uid) == {day_name(e.ts) : e \in Range(ListByUser15(uid))}

\* The Insights tab from the heat-map on, for the non-empty frame df.
InsightsBody15(df, base, h, d) ==
            LET heat == HeatRows15(df)
                y == [i \in 1..Len(df) |-> df[i].status = "Missed"]
                days == [i \in 1..Len(df) |-> day_name(df[i].ts)]
                fit == Pipeline_fit(days, y, "error")
            IN IF fit.error # "none"
               THEN [base EXCEPT !.heat = heat, !.outcome = fit.error,
                                 !.fit_rows = fit.rows, !.classes = Range(y),
                                 !.y = fit.y]
               ELSE LET risk == <<predict_proba(fit.est, d, <<h>>)>>
                    IN [base EXCEPT !.heat = heat, !.est = fit.est.state,
                                    !.classes = fit.est.classes, !.risk = risk,
                                    !.fit_rows = fit.rows, !.y = fit.y,
                                    !.outcome = RiskOutcome(risk)]

\* Mutant of InsightsTab15: the frame is read without the user_id filter.
InsightsTab15_AllUsers(uid, h, d) ==
    LET df == doses
        base == [NoInsight EXCEPT !.op = "view", !.user = uid, !.logs = df]
    IN IF df = <<>>
       THEN [base EXCEPT !.outcome = "NoLogs"]
       ELSE InsightsBody15(df, base, h, d)

\* Mutant of InsightsTab15: the df.empty test is missing.
InsightsTab15_NoEmptyCheck(uid, h, d) ==
    LET df == ListByUser15(uid)
        base == [NoInsight EXCEPT !.op = "view", !.user = uid, !.logs = df]
    IN InsightsBody15(df, base, h, d)

\* The Insights tab of page_dashboard for user uid with the slider at h and the
\* Day selectbox at d.
InsightsTab15(uid, h, d) ==
    LET df == ListByUser15(uid)
        base == [NoInsight EXCEPT !.op = "view", !.user = uid, !.logs = df]
    IN IF df = <<>>
       THEN [base EXCEPT !.outcome = "NoLogs"]
       ELSE InsightsBody15(df, base, h, d)

\* Mutant of Dashboard15: the view writes the frame it read back as the table.
Dashboard15_WriteBack(s, h, d, op) ==
    LET uid == ses[s].uid
        view == InsightsTab15(uid, h, d)
        raised == view.outcome \notin {"NoLogs", "Risk"}
    IN /\ insight' = view
       /\ ses' = [ses EXCEPT ![s].rerun = IF raised THEN @ ELSE FALSE]
       /\ last' = [NoLast EXCEPT !.op = op, !.ses = s, !.user = uid,
                                 !.out = view.outcome]
       /\ doses' = ListByUser15(uid)
       /\ UNCHANGED <<users, meds, now>>

\* page_dashboard with no form submitted and no button clicked: the three tabs
\* are rendered, the Insights tab computes; an exception ends the script run
\* before the deferred rerun handler, otherwise the handler clears the flag.
Dashboard15(s, h, d, op) ==
    LET uid == ses[s].uid
        view == InsightsTab15(uid, h, d)
        raised == view.outcome \notin {"NoLogs", "Risk"}
    IN /\ insight' = view
       /\ ses' = [ses EXCEPT ![s].rerun = IF raised THEN @ ELSE FALSE]
       /\ last' = [NoLast EXCEPT !.op = op, !.ses = s, !.user = uid,
                                 !.out = view.outcome]
       /\ UNCHANGED <<users, meds, doses, now>>

SidebarLinks15(uid) == IF uid # NoUid THEN {"home", "dash", "logout"}
                       ELSE {"home", "login", "reg"}

\* The values the Hour slider and the Day selectbox can hold for user uid: the
\* two widgets exist only when the fit has succeeded; without them the values
\* are the defaults and are not read.
Fits15(uid) == LET df == ListByUser15(uid)
               IN Cardinality({df[i].status : i \in 1..Len(df)}) >= 2
HourChoices15(uid) == IF Fits15(uid) THEN SliderHours ELSE {8}
DayChoices15(uid) == IF Fits15(uid) THEN DayOptions15(uid) ELSE {"Monday"}

\* A sidebar button: nav_link sets the page, the router renders it.
Nav15(s, p, h, d) ==
    /\ app = "15" /\ s \in DOMAIN ses
    /\ p \in SidebarLinks15(ses[s].uid)
    /\ h \in HourChoices15(ses[s].uid) /\ d \in DayChoices15(ses[s].uid)
    /\ UNCHANGED <<app, reminders>>
    /\ CASE p = "logout" ->
              /\ ses' = [ses EXCEPT ![s] = [uid |-> NoUid, page |-> "home", rerun |-> TRUE]]
              /\ insight' = NoInsight
              /\ last' = [NoLast EXCEPT !.op = "logout", !.ses = s, !.out = "stop"]
              /\ UNCHANGED <<users, meds, doses, now>>
         [] p = "dash" ->
              \E v \in {InsightsTab15(ses[s].uid, h, d)} :
                 /\ insight' = v
                 /\ ses' = [ses EXCEPT ![s].page = "dash",
                                       ![s].rerun = IF v.outcome \in {"NoLogs", "Risk"}
                                                    THEN FALSE ELSE @]
                 /\ last' = [NoLast EXCEPT !.op = "nav", !.ses = s,
                                           !.user = ses[s].uid, !.out = v.outcome]
                 /\ UNCHANGED <<users, meds, doses, now>>
         [] OTHER ->
              /\ ses' = [ses EXCEPT ![s].page = p, ![s].rerun = FALSE]
              /\ insight' = NoInsight
              /\ last' = [NoLast EXCEPT !.op = "nav", !.ses = s, !.out = p]
              /\ UNCHANGED <<users, meds, doses, now>>

\* page_register with the form submitted; rec is the record of the step before
\* its outcome is known.
RegisterAs15(s, u, p, rec) ==
    /\ app = "15" /\ s \in DOMAIN ses
    /\ ses[s].page = "reg"
    /\ insight' = NoInsight
    /\ UNCHANGED <<app, meds, doses, now, reminders>>
    /\ IF u = "" \/ p = ""
       THEN /\ ses' = [ses EXCEPT ![s].rerun = FALSE]
            /\ last' = [rec EXCEPT !.op = "register", !.ses = s, !.out = "required"]
            /\ UNCHANGED users
       ELSE IF \E i \in 1..Len(users) : users[i].username = u
            THEN /\ ses' = [ses EXCEPT ![s].rerun = FALSE]
                 /\ last' = [rec EXCEPT !.op = "register", !.ses = s, !.out = "taken"]
                 /\ UNCHANGED users
            ELSE /\ users' = Append(users, [id |-> NextId(users), username |-> u,
                                            password |-> hash_pw(p)])
                 /\ ses' = [ses EXCEPT ![s].page = "login", ![s].rerun = TRUE]
                 /\ last' = [rec EXCEPT !.op = "register", !.ses = s,
                                        !.id = NextId(users), !.out = "created"]

Register15(s, u, p) == RegisterAs15(s, u, p, NoLast)

\* page_login with the form submitted (the router also shows it for page "dash"
\* without a user); rec is the record of the step before its outcome is known.
LoginAs15(s, u, p, rec) ==
    /\ app = "15" /\ s \in DOMAIN ses
    /\ \/ ses[s].page = "login"
       \/ ses[s].page = "dash" /\ ses[s].uid = NoUid
    /\ insight' = NoInsight
    /\ UNCHANGED <<app, users, meds, doses, now, reminders>>
    /\ LET rows == SelectSeq(users, LAMBDA r : r.username = u /\ r.password = hash_pw(p))
       IN IF rows # <<>>
          THEN /\ ses' = [ses EXCEPT ![s] = [uid |-> rows[1].id, page |-> "dash",
                                             rerun |-> TRUE]]
               /\ last' = [rec EXCEPT !.op = "login", !.ses = s,
                                      !.user = rows[1].id, !.out = "ok"]
          ELSE /\ ses' = [ses EXCEPT ![s].rerun = FALSE]
               /\ last' = [rec EXCEPT !.op = "login", !.ses = s, !.out = "invalid"]

Login15(s, u, p) == LoginAs15(s, u, p, NoLast)

\* The Medicines tab with the form submitted: a named medicine is inserted and
\* the script stops; with an empty name the rest of the dashboard is rendered.
AddMed15(s, m, sc, h, d) ==
    /\ app = "15" /\ s \in DOMAIN ses
    /\ ses[s].page = "dash" /\ ses[s].uid # NoUid
    /\ h \in HourChoices15(ses[s].uid) /\ d \in DayChoices15(ses[s].uid)
    /\ UNCHANGED <<app, reminders>>
    /\ IF m # ""
       THEN /\ Len(meds) < MaxMeds
            /\ meds' = Append(meds, [id |-> NextId(meds), user |-> ses[s].uid,
                                     med_name |-> m, dosage |-> "500mg",
                                     schedule |-> sc])
            /\ ses' = [ses EXCEPT ![s].rerun = TRUE]
            /\ insight' = NoInsight
            /\ last' = [NoLast EXCEPT !.op = "add_med", !.ses = s, !.user = ses[s].uid,
                                      !.id = NextId(meds), !.out = "stop"]
            /\ UNCHANGED <<users, doses, now>>
       ELSE Dashboard15(s, h, d, "add_med")

\* Mutant of SelectedMedId15: the name is looked up in the whole meds table.
SelectedMedId15_AnyUser(uid, med) ==
    SelectSeq(meds, LAMBDA m : m.med_name = med)[1].id

\* The id the Log Dose tab takes for the selected name:
\* int(meds.loc[meds.med_name==med,"id"].values[0])
SelectedMedId15(uid, med) ==
    SelectSeq(MedsOf15(uid), LAMBDA m : m.med_name = med)[1].id

\* Mutant of InsertDose15: the status column is written with a fixed value.
InsertDose15_FixedStatus(uid, mid, t, status) ==
    Append(doses, [id |-> NextId(doses), user |-> uid, med |-> mid, ts |-> t,
                   status |-> "Taken"])

\* Mutant of InsertDose15: INSERT OR REPLACE on the latest row.
InsertDose15_Replace(uid, mid, t, status) ==
    IF doses = <<>>
    THEN <<[id |-> 1, user |-> uid, med |-> mid, ts |-> t, status |-> status]>>
    ELSE [doses EXCEPT ![Len(doses)] = [id |-> Len(doses), user |-> uid, med |-> mid,
                                        ts |-> t, status |-> status]]

\* INSERT INTO doses (user_id,med_id,timestamp,status) VALUES (?,?,?,?), under
\* the schema's CHECK(status IN ('Taken','Missed')): a row with another status
\* raises IntegrityError and nothing is inserted.
InsertDose15(uid, mid, t, status) ==
    IF status \in Statuses
    THEN Append(doses, [id |-> NextId(doses), user |-> uid, med |-> mid, ts |-> t,
                        status |-> status])
    ELSE doses

\* The Log Dose tab with Save clicked.
LogDose15(s, med, status, t) ==
    /\ app = "15" /\ s \in DOMAIN ses
    /\ ses[s].page = "dash" /\ ses[s].uid # NoUid
    /\ MedsOf15(ses[s].uid) # <<>>
    /\ med \in {m.med_name : m \in Range(MedsOf15(ses[s].uid))}
    /\ Len(doses) < MaxDoses
    /\ t \in Times /\ t >= now
    /\ LET uid == ses[s].uid
           mid == SelectedMedId15(uid, med)
       IN /\ doses' = InsertDose15(uid, mid, t, status)
          /\ last' = [NoLast EXCEPT !.op = "log_dose", !.ses = s, !.user = uid,
                                    !.med = mid, !.status = status,
                                    !.id = NextId(doses), !.out = "stop"]
    /\ now' = t
    /\ ses' = [ses EXCEPT ![s].rerun = TRUE]
    /\ insight' = NoInsight
    /\ UNCHANGED <<app, users, meds, reminders>>

\* A rerun of the dashboard with the slider or the Day selectbox changed.
RenderDash15(s, h, d) ==
    /\ app = "15" /\ s \in DOMAIN ses
    /\ ses[s].page = "dash" /\ ses[s].uid # NoUid
    /\ h \in HourChoices15(ses[s].uid) /\ d \in DayChoices15(ses[s].uid)
    /\ UNCHANGED <<app, reminders>>
    /\ Dashboard15(s, h, d, "view")

Next15 ==
    \E s \in Sessions :
       \/ \E p \in {"home", "login", "reg", "dash", "logout"}, h \in SliderHours,
             d \in Days : Nav15(s, p, h, d)
       \/ \E u \in Usernames, p \in Passwords : Register15(s, u, p)
       \/ \E u \in Usernames, p \in Passwords : Login15(s, u, p)
       \/ \E m \in MedNames, sc \in Schedules, h \in SliderHours,
             d \in Days : AddMed15(s, m, sc, h, d)
       \/ \E med \in MedNames, st \in Statuses, t \in Times : LogDose15(s, med, st, t)
       \/ \E h \in SliderHours, d \in Days : RenderDash15(s, h, d)

Init15 ==
    /\ app = "15"
    /\ users = <<>> /\ meds = <<>> /\ doses = <<>>
    /\ ses = [s \in {"s1"} |-> Session15]
    /\ now = 0
    /\ insight = NoInsight
    /\ last = NoLast
    /\ reminders = <<>>

(* ----------------------------- src/12medi.py ---------------------------- *)
Usernames12 == {"ann", "demo"}
Passwords12 == {"", "demo"}
TimeInputs == {<<8, 0>>}

Digits == <<"0", "1", "2", "3", "4", "5", "6", "7", "8", "9">>

\* f"{h:02d}"
TwoDigits(n) == Digits[(n \div 10) + 1] \o Digits[(n % 10) + 1]

\* time_of_day.strftime("%H:%M") of the time <<hour, minute>>
strftime_HM(t) == TwoDigits(t[1]) \o ":" \o TwoDigits(t[2])

\* the two add_med calls of the demo seed
SeedMeds == 2

Session12 == [logged_in |-> FALSE, user |-> "", page |-> "Home"]

\* get_user(username) is None
NoUser12(U, username) == \A i \in 1..Len(U) : U[i].username # username

\* main(): the auto-seed of the sample user that every script run starts with.
SeedUsers12(U) ==
    IF NoUser12(U, "demo")
    THEN Append(U, [username |-> "demo", password |-> hash_pw("demo")])
    ELSE U
SeedMedsOf12(U, M) ==
    IF NoUser12(U, "demo")
    THEN M \o << [id |-> NextId(M), user |-> "demo", med_name |-> "Metformin",
                  dosage |-> "500 mg", schedule |-> "08:00"],
                 [id |-> NextId(M) + 1, user |-> "demo", med_name |-> "Atorvastatin",
                  dosage |-> "20 mg", schedule |-> "21:00"] >>
    ELSE M

\* get_user_meds: SELECT * FROM meds WHERE username=?
get_user_meds(M, username) == SelectSeq(M, LAMBDA m : m.user = username)

\* get_logs: SELECT * FROM dose_log WHERE username=?
get_logs(D, username) == SelectSeq(D, LAMBDA e : e.user = username)

\* log_dose: INSERT INTO dose_log (username, med_id, ts, taken) VALUES (?,?,?,?)
log_dose(D, username, med_id, t, taken) ==
    Append(D, [id |-> NextId(D), user |-> username, med |-> med_id, ts |-> t,
               status |-> taken])

\* Mutant of add_med: a medicine the user has under that name is updated in
\* place instead of inserted.
add_med_Upsert(M, username, med_name, dose, time_of_day) ==
    IF \E i \in 1..Len(M) : M[i].user = username /\ M[i].med_name = med_name
    THEN LET i == CHOOSE k \in 1..Len(M) :
                     M[k].user = username /\ M[k].med_name = med_name
         IN [M EXCEPT ![i].dosage = dose, ![i].schedule = time_of_day]
    ELSE Append(M, [id |-> NextId(M), user |-> username, med_name |-> med_name,
                    dosage |-> dose, schedule |-> time_of_day])

\* add_med: INSERT INTO meds (username, med_name, dose, time_of_day) VALUES (?,?,?,?)
add_med(M, username, med_name, dose, time_of_day) ==
    Append(M, [id |-> NextId(M), user |-> username, med_name |-> med_name,
               dosage |-> dose, schedule |-> time_of_day])

\* df.merge(meds[["id","time_of_day"]], left_on="med_id", right_on="id", how="left")
time_of_day_of(M, med_id) ==
    IF \E i \in 1..Len(M) : M[i].id = med_id
    THEN M[CHOOSE i \in 1..Len(M) : M[i].id = med_id].schedule
    ELSE "NaN"

\* Mutant of train_predictor: OneHotEncoder() with its default handle_unknown.
train_predictor_DefaultEncoder(logs, M) ==
    LET tod == [i \in 1..Len(logs) |-> time_of_day_of(M, logs[i].med)]
        y == [i \in 1..Len(logs) |-> logs[i].status]
    IN Pipeline_fit(tod, y, "error")

\* Mutant of train_predictor: the logs.empty test is missing.
train_predictor_NoEmptyCheck(logs, M) ==
    LET tod == [i \in 1..Len(logs) |-> time_of_day_of(M, logs[i].med)]
        y == [i \in 1..Len(logs) |-> logs[i].status]
    IN Pipeline_fit(tod, y, "ignore")

\* train_predictor(logs, meds): None with the need-logs message for an empty
\* logs frame, else the pipeline fitted on every row of it.
train_predictor(logs, M) ==
    IF logs = <<>>
    THEN [error |-> "NeedLogs", est |-> Unfit, rows |-> NoFit, y |-> <<>>]
    ELSE LET tod == [i \in 1..Len(logs) |-> time_of_day_of(M, logs[i].med)]
             y == [i \in 1..Len(logs) |-> logs[i].status]
         IN Pipeline_fit(tod, y, "ignore")

\* The 24 rows of the next-24h frame, for the weekday read from the clock.
future(t) == [h \in 1..24 |-> [hour |-> h - 1, dayofweek |-> dayofweek(t),
                               time_of_day |-> TwoDigits(h - 1) \o ":00"]]

\* Whether train_predictor fits for username: the weekday read from the clock
\* is used only then.
Fits12(D, username) ==
    LET logs == get_logs(D, username)
    IN Cardinality({logs[i].status : i \in 1..Len(logs)}) >= 2
ViewTimes12(D, username) == IF Fits12(D, username) THEN {t \in Times : t >= now}
                            ELSE {now}

\* insights_tab(username) over the tables D (dose_log) and M (meds) at clock
\* reading t.
insights_tab(D, M, username, t) ==
    LET logs == get_logs(D, username)
        mine == get_user_meds(M, username)
        base == [NoInsight EXCEPT !.op = "view", !.user = username, !.logs = logs]
    IN IF logs = <<>>
       THEN [base EXCEPT !.outcome = "NoLogs"]
       ELSE LET heat == {[date |-> (36 * logs[i].ts + 8) \div 24,
                          hour |-> hour(logs[i].ts)] :
                         i \in {j \in 1..Len(logs) : logs[j].status = 0}}
                fit == train_predictor(logs, mine)
            IN IF fit.error # "none"
               THEN [base EXCEPT !.heat = heat, !.outcome = fit.error,
                                 !.fit_rows = fit.rows, !.y = fit.y,
                                 !.classes = {logs[i].status : i \in 1..Len(logs)}]
               ELSE LET f == future(t)
                        risk == [i \in 1..24 |->
                                   predict_proba(fit.est, f[i].time_of_day,
                                                 <<f[i].hour, f[i].dayofweek>>)]
                    IN [base EXCEPT !.heat = heat, !.est = fit.est.state,
                                    !.classes = fit.est.classes, !.risk = risk,
                                    !.fit_rows = fit.rows, !.y = fit.y,
                                    !.outcome = RiskOutcome(risk)]

Menu12(logged_in) == IF logged_in THEN {"Dashboard", "Home", "Login", "Register"}
                     ELSE {"Home", "Login", "Register"}

\* The sidebar radio: the chosen screen is rendered; "Dashboard" renders the
\* three tabs, the Insights tab among them.
Nav12(s, c, t) ==
    /\ app = "12medi" /\ s \in DOMAIN ses
    /\ c \in Menu12(ses[s].logged_in)
    /\ t \in (IF c = "Dashboard" THEN ViewTimes12(doses, ses[s].user) ELSE {now})
    /\ users' = SeedUsers12(users)
    /\ meds' = SeedMedsOf12(users, meds)
    /\ ses' = [ses EXCEPT ![s].page = c]
    /\ insight' = IF c = "Dashboard"
                  THEN insights_tab(doses, meds', ses[s].user, t)
                  ELSE NoInsight
    /\ last' = [NoLast EXCEPT !.op = "nav", !.ses = s, !.out = c]
    /\ UNCHANGED <<app, doses, now, reminders>>

\* register_screen with the form submitted.
Register12(s, username, password, agree) ==
    /\ app = "12medi" /\ s \in DOMAIN ses
    /\ ses[s].page = "Register"
    /\ LET U == SeedUsers12(users)
       IN IF agree /\ NoUser12(U, username)
          THEN /\ users' = Append(U, [username |-> username,
                                      password |-> hash_pw(password)])
               /\ last' = [NoLast EXCEPT !.op = "register", !.ses = s,
                                         !.out = "created"]
          ELSE /\ users' = U
               /\ last' = [NoLast EXCEPT !.op = "register", !.ses = s,
                                         !.out = IF agree THEN "exists" ELSE "ignored"]
    /\ meds' = SeedMedsOf12(users, meds)
    /\ insight' = NoInsight
    /\ UNCHANGED <<app, doses, ses, now, reminders>>

\* login_screen with Login clicked; on success the script reruns, the menu gains
\* "Dashboard" as its first entry and the dashboard is rendered.
Login12(s, username, password, t) ==
    /\ app = "12medi" /\ s \in DOMAIN ses
    /\ ses[s].page = "Login"
    /\ t \in ViewTimes12(doses, username)
    /\ users' = SeedUsers12(users)
    /\ meds' = SeedMedsOf12(users, meds)
    /\ LET rows == SelectSeq(users', LAMBDA r : r.username = username)
       IN IF rows # <<>> /\ hash_pw(password) = rows[1].password
          THEN /\ ses' = [ses EXCEPT ![s] = [logged_in |-> TRUE, user |-> username,
                                             page |-> "Dashboard"]]
               /\ insight' = insights_tab(doses, meds', username, t)
               /\ last' = [NoLast EXCEPT !.op = "login", !.ses = s, !.out = "ok"]
          ELSE /\ insight' = NoInsight
               /\ last' = [NoLast EXCEPT !.op = "login", !.ses = s, !.out = "invalid"]
               /\ UNCHANGED ses
    /\ UNCHANGED <<app, doses, now, reminders>>

\* schedule_tab with Add Medicine submitted: add_med, then the rerun renders the
\* dashboard again.
AddMed12(s, med_name, tod, t) ==
    /\ app = "12medi" /\ s \in DOMAIN ses
    /\ ses[s].page = "Dashboard" /\ ses[s].logged_in
    /\ t \in ViewTimes12(doses, ses[s].user)
    /\ Len(SeedMedsOf12(users, meds)) - SeedMeds < MaxMeds - 1
    /\ users' = SeedUsers12(users)
    /\ meds' = add_med(SeedMedsOf12(users, meds), ses[s].user, med_name, "500mg",
                       strftime_HM(tod))
    /\ insight' = insights_tab(doses, meds', ses[s].user, t)
    /\ last' = [NoLast EXCEPT !.op = "add_med", !.ses = s, !.id = Len(meds'),
                              !.out = "ok"]
    /\ UNCHANGED <<app, doses, ses, now, reminders>>

\* log_tab: med_dict = {f"{row.med_name} - {row.time_of_day}": row.id ...}
MedLabel12(m) == m.med_name \o " - " \o m.schedule
med_dict(M, label) ==
    M[CHOOSE i \in 1..Len(M) :
        /\ MedLabel12(M[i]) = label
        /\ \A j \in (i + 1)..Len(M) : MedLabel12(M[j]) # label].id

\* Mutant of TakenValue12: Missed is stored as 2.
TakenValue12_Bug(status) == IF status = "Taken" THEN 1 ELSE 2

\* 1 if taken == "Taken" else 0
TakenValue12(status) == IF status = "Taken" THEN 1 ELSE 0

\* log_tab with Save Log clicked: log_dose, then the Insights tab of the same run.
LogDose12(s, label, status, t) ==
    /\ app = "12medi" /\ s \in DOMAIN ses
    /\ ses[s].page = "Dashboard" /\ ses[s].logged_in
    /\ t \in Times /\ t >= now
    /\ Len(doses) < MaxDoses
    /\ users' = SeedUsers12(users)
    /\ meds' = SeedMedsOf12(users, meds)
    /\ LET mine == get_user_meds(meds', ses[s].user)
       IN /\ mine # <<>>
          /\ label \in {MedLabel12(m) : m \in Range(mine)}
          /\ doses' = log_dose(doses, ses[s].user, med_dict(mine, label), t,
                               TakenValue12(status))
          /\ last' = [NoLast EXCEPT !.op = "log_dose", !.ses = s,
                                    !.user = ses[s].user, !.med = med_dict(mine, label), !.status = status,
                                    !.id = NextId(doses), !.out = "ok"]
    /\ insight' = insights_tab(doses', meds', ses[s].user, t)
    /\ now' = t
    /\ UNCHANGED <<app, ses, reminders>>

Labels12 == {n \o " - " \o sc : n \in {"Metformin", "Atorvastatin"},
                                sc \in {"08:00", "21:00"}}

Next12 ==
    \E s \in Sessions :
       \/ \E c \in {"Dashboard", "Home", "Login", "Register"}, t \in Times : Nav12(s, c, t)
       \/ \E u \in Usernames12, a \in BOOLEAN : Register12(s, u, "demo", a)
       \/ \E u \in Usernames12, p \in Passwords12, t \in Times : Login12(s, u, p, t)
       \/ \E tod \in TimeInputs, t \in Times : AddMed12(s, "Metformin", tod, t)
       \/ \E l \in Labels12, st \in Statuses, t \in Times : LogDose12(s, l, st, t)

Init12 ==
    /\ app = "12medi"
    /\ users = <<>> /\ meds = <<>> /\ doses = <<>>
    /\ ses = [s \in {"s1"} |-> Session12]
    /\ now = 0
    /\ insight = NoInsight
    /\ last = NoLast
    /\ reminders = <<>>

(* ------------------------------ src/4medi.py ---------------------------- *)
Usernames4 == {"", "pat", "drsmith"}
Passwords4 == {"", "pw", "doc123"}
Roles4 == {"patient", "doctor"}
TimeInputs4 == {<<9, 0>>, <<21, 0>>}

\* "taken": None
None4 == -1

Auth4 == [logged |-> FALSE, username |-> "", role |-> ""]

\* st.session_state.users.get(username)
UserRows4(username) == SelectSeq(users, LAMBDA r : r.username = username)

\* authenticate(username, password): the role, or "" for (None, None)
authenticate(username, password) ==
    LET rows == UserRows4(username)
    IN IF rows # <<>> /\ rows[1].password = hash_pw(password) THEN rows[1].role ELSE ""

\* The Login button of the authentication screen.
Login4(s, u, pw) ==
    /\ app = "4medi" /\ s \in DOMAIN ses
    /\ ~ses[s].logged
    /\ LET role == authenticate(u, pw)
       IN IF role # ""
          THEN /\ ses' = [ses EXCEPT ![s] = [logged |-> TRUE, username |-> u,
                                             role |-> role]]
               /\ last' = [NoLast EXCEPT !.op = "login", !.ses = s, !.name = u,
                                         !.pw = pw, !.out = "ok"]
          ELSE /\ last' = [NoLast EXCEPT !.op = "login", !.ses = s, !.name = u,
                                         !.pw = pw, !.out = "invalid"]
               /\ UNCHANGED ses
    /\ UNCHANGED <<app, users, meds, doses, now, insight, reminders>>

\* The Register button: register_user when the three fields are filled in.
Register4(s, u, pw, role, phone) ==
    /\ app = "4medi" /\ s \in DOMAIN ses
    /\ ~ses[s].logged
    /\ IF u # "" /\ pw # "" /\ phone # "" /\ UserRows4(u) = <<>>
       THEN /\ users' = Append(users, [username |-> u, password |-> hash_pw(pw),
                                       role |-> role])
            /\ last' = [NoLast EXCEPT !.op = "register", !.ses = s,
                                      !.name = u, !.out = "created"]
       ELSE /\ last' = [NoLast EXCEPT !.op = "register", !.ses = s,
                                      !.name = u, !.out = "rejected"]
            /\ UNCHANGED users
    /\ UNCHANGED <<app, meds, doses, ses, now, insight, reminders>>

\* The sidebar Logout button.
Logout4(s) ==
    /\ app = "4medi" /\ s \in DOMAIN ses
    /\ ses[s].logged
    /\ ses' = [ses EXCEPT ![s] = Auth4]
    /\ last' = [NoLast EXCEPT !.op = "logout", !.ses = s, !.out = "ok"]
    /\ UNCHANGED <<app, users, meds, doses, now, insight, reminders>>

\* patients = [u for u, data in users.items() if data["role"] == "patient"]
Patients4 == {r.username : r \in {x \in Range(users) : x.role = "patient"}}

\* The doctor dashboard with Add Reminder clicked.
AddReminder4(s, patient, medicine, tm) ==
    /\ app = "4medi" /\ s \in DOMAIN ses
    /\ ses[s].logged /\ ses[s].role = "doctor"
    /\ patient \in Patients4
    /\ IF medicine # ""
       THEN /\ Len(reminders) < MaxDoses
            /\ reminders' = Append(reminders,
                                   [patient |-> patient, doctor |-> ses[s].username,
                                    medicine |-> medicine, time |-> strftime_HM(tm),
                                    taken |-> None4])
            /\ last' = [NoLast EXCEPT !.op = "add_reminder", !.ses = s,
                                      !.id = Len(reminders) + 1, !.out = "added"]
       ELSE /\ last' = [NoLast EXCEPT !.op = "add_reminder", !.ses = s, !.out = "ignored"]
            /\ UNCHANGED reminders
    /\ UNCHANGED <<app, users, meds, doses, ses, now, insight>>

\* Mutant of due_now: the reminders that are marked already are due as well.
due_now_Marked(username, now_str) ==
    SelectSeq([i \in 1..Len(reminders) |-> i],
              LAMBDA i : /\ reminders[i].patient = username
                         /\ reminders[i].time = now_str)

\* due_now = [r for r in my_reminders if r["time"] == now_str and r["taken"] is None],
\* as the indices of those reminders in st.session_state.reminders
due_now(username, now_str) ==
    SelectSeq([i \in 1..Len(reminders) |-> i],
              LAMBDA i : /\ reminders[i].patient = username
                         /\ reminders[i].time = now_str
                         /\ reminders[i].taken = None4)

\* The patient dashboard with the Mark Taken (v = 1) or Mark Missed (v = 0)
\* button of the i-th due reminder clicked, the clock reading now_str.
Mark4(s, i, v, tm) ==
    /\ app = "4medi" /\ s \in DOMAIN ses
    /\ ses[s].logged /\ ses[s].role = "patient"
    /\ LET due == due_now(ses[s].username, strftime_HM(tm))
       IN /\ i \in 1..Len(due)
          /\ reminders' = [reminders EXCEPT ![due[i]].taken = v]
          /\ last' = [NoLast EXCEPT !.op = "mark", !.ses = s, !.id = due[i],
                                    !.out = "ok"]
    /\ UNCHANGED <<app, users, meds, doses, ses, now, insight>>

Next4 ==
    \E s \in Sessions :
       \/ \E u \in Usernames4, pw \in Passwords4 : Login4(s, u, pw)
       \/ \E u \in Usernames4, pw \in Passwords4, r \in Roles4, ph \in {"", "+91"} :
             Register4(s, u, pw, r, ph)
       \/ Logout4(s)
       \/ \E pt \in Usernames4, m \in MedNames, tm \in TimeInputs4 :
             AddReminder4(s, pt, m, tm)
       \/ \E i \in 1..MaxDoses, v \in {0, 1}, tm \in TimeInputs4 : Mark4(s, i, v, tm)

\* The session state after the first script run: the built-in doctor account,
\* no reminders, nobody logged in.
Init4 ==
    /\ app = "4medi"
    /\ users = << [username |-> "drsmith", password |-> hash_pw("doc123"),
                   role |-> "doctor"] >>
    /\ meds = <<>> /\ doses = <<>>
    /\ ses = [s \in {"s1"} |-> Auth4]
    /\ now = 0
    /\ insight = NoInsight
    /\ last = NoLast
    /\ reminders = <<>>

(* ------------- the store helpers of src/12medi.py on their own ---------- *)
\* create_user(username, ...): username is the PRIMARY KEY of users.
CreateUserCall(username) ==
    /\ app = "store"
    /\ IF NoUser12(users, username)
       THEN /\ users' = Append(users, [username |-> username,
                                       password |-> hash_pw("demo")])
            /\ last' = [NoLast EXCEPT !.op = "create_user", !.out = "ok"]
       ELSE /\ last' = [NoLast EXCEPT !.op = "create_user", !.out = "IntegrityError"]
            /\ UNCHANGED users
    /\ UNCHANGED <<app, meds, doses, ses, now, insight, reminders>>

\* add_med(username, med_name, dose, time_of_day)
AddMedCall(username, tod) ==
    /\ app = "store"
    /\ Len(meds) < MaxMeds
    /\ meds' = add_med(meds, username, "Metformin", "500mg", strftime_HM(tod))
    /\ last' = [NoLast EXCEPT !.op = "add_med", !.id = NextId(meds), !.out = "ok"]
    /\ UNCHANGED <<app, users, doses, ses, now, insight, reminders>>

\* log_dose(username, med_id, taken) with any arguments
LogDoseCall(username, med_id, taken, t) ==
    /\ app = "store"
    /\ Len(doses) < MaxDoses
    /\ t \in Times /\ t >= now
    /\ \E i \in 1..Len(meds) : meds[i].id = med_id
    /\ doses' = log_dose(doses, username, med_id, t, taken)
    /\ now' = t
    /\ last' = [op |-> "log_dose", ses |-> "none", user |-> username, med |-> med_id,
                status |-> taken, id |-> NextId(doses), out |-> "ok"]
    /\ UNCHANGED <<app, users, meds, ses, insight, reminders>>

\* train_predictor(get_logs(username), get_user_meds(username)) called as it is
TrainPredictorCall(username) ==
    /\ app = "store"
    /\ LET logs == get_logs(doses, username)
           fit == train_predictor(logs, get_user_meds(meds, username))
       IN insight' = [NoInsight EXCEPT !.op = "train", !.user = username,
                                       !.logs = logs,
                                       !.outcome = IF fit.error # "none" THEN fit.error
                                                   ELSE "Fit",
                                       !.est = fit.est.state,
                                       !.classes = fit.est.classes,
                                       !.fit_rows = fit.rows, !.y = fit.y]
    /\ last' = [NoLast EXCEPT !.op = "train", !.out = "ok"]
    /\ UNCHANGED <<app, users, meds, doses, ses, now, reminders>>

NextStore ==
    \/ CreateUserCall("ann")
    \/ \E u \in Usernames12 : AddMedCall(u, <<8, 0>>)
    \/ \E u \in Usernames12, m \in 1..MaxMeds, k \in {0, 1, 2} :
          LogDoseCall(u, m, k, 0)

\* The tables after init_db().
InitStore ==
    /\ app = "store"
    /\ users = <<>> /\ meds = <<>> /\ doses = <<>>
    /\ ses = <<>>
    /\ now = 0
    /\ insight = NoInsight
    /\ last = [op |-> "init", ses |-> "none", user |-> "", med |-> 0, status |-> 0,
               id |-> 0, out |-> "none"]
    /\ reminders = <<>>

(* --------------------------- src/1medipredict.py ------------------------ *)
\* The console has no login: one operator works on the doctors, patients,
\* medications and logs tables. users holds the doctors and patients tables.
PatientNames1 == {"ann", "bob"}
DoctorNames1 == {"", "drsmith"}
DoseTimes1 == {{}, {"08:00"}, {"08:00", "20:00"}}

\* datetime.now().strftime('%H:%M') of a clock reading
ClockHM(t) == TwoDigits(hour(t)) \o ":00"

\* patients_df[patients_df["name"] == pat_choice]["id"].iloc[0]
PatientId1(pat_choice) ==
    SelectSeq(users.patients, LAMBDA r : r.name = pat_choice)[1].id

\* get_logs(patient_id): SELECT * FROM logs [WHERE patient_id = ?]
get_logs1(patient_id) ==
    IF patient_id = NoUid THEN doses
    ELSE SelectSeq(doses, LAMBDA e : e.user = patient_id)

\* get_medications(patient_id)
get_medications(patient_id) == SelectSeq(meds, LAMBDA m : m.user = patient_id)

\* The Doctors page with Add Doctor clicked.
AddDoctor1(name) ==
    /\ app = "1medipredict"
    /\ users.doctors = <<>>
    /\ IF name # ""
       THEN /\ users' = [users EXCEPT !.doctors =
                            Append(@, [id |-> NextId(@), name |-> name])]
            /\ last' = [NoLast EXCEPT !.op = "add_doctor", !.out = "ok"]
       ELSE /\ last' = [NoLast EXCEPT !.op = "add_doctor", !.out = "required"]
            /\ UNCHANGED users
    /\ insight' = NoInsight
    /\ UNCHANGED <<app, meds, doses, ses, now, reminders>>

\* The Patients page with Add Patient clicked; without a doctor to assign the
\* lookup of the doctor id raises and nothing is added.
AddPatient1(p_name) ==
    /\ app = "1medipredict"
    /\ Len(users.patients) < MaxPatients
    /\ IF users.doctors # <<>>
       THEN /\ users' = [users EXCEPT !.patients =
                            Append(@, [id |-> NextId(@), name |-> p_name])]
            /\ last' = [NoLast EXCEPT !.op = "add_patient", !.out = "ok"]
       ELSE /\ last' = [NoLast EXCEPT !.op = "add_patient", !.out = "IndexError"]
            /\ UNCHANGED users
    /\ insight' = NoInsight
    /\ UNCHANGED <<app, meds, doses, ses, now, reminders>>

\* The Prescriptions page with Add Prescription clicked.
AddPrescription1(pat_choice, med_name, times) ==
    /\ app = "1medipredict"
    /\ \E i \in 1..Len(users.patients) : users.patients[i].name = pat_choice
    /\ IF med_name # "" /\ times # {}
       THEN /\ Len(meds) < MaxMeds
            /\ meds' = Append(meds, [id |-> NextId(meds), user |-> PatientId1(pat_choice),
                                     med_name |-> med_name, dosage |-> "500mg",
                                     schedule |-> times])
            /\ last' = [NoLast EXCEPT !.op = "add_med", !.id = NextId(meds),
                                      !.out = "ok"]
       ELSE /\ last' = [NoLast EXCEPT !.op = "add_med", !.out = "ignored"]
            /\ UNCHANGED meds
    /\ insight' = NoInsight
    /\ UNCHANGED <<app, users, doses, ses, now, reminders>>

\* due_df of Reminders & Tracking: the (medication, scheduled time) pairs of
\* the patient within 30 minutes of the clock reading, in table order.
due_df(patient_id, t) ==
    LET rows == get_medications(patient_id)
        due(m) == IF ClockHM(t) \in m.schedule THEN <<[med |-> m.id, sched |-> ClockHM(t)]>>
                  ELSE <<>>
        F[i \in 0..Len(rows)] == IF i = 0 THEN <<>> ELSE F[i - 1] \o due(rows[i])
    IN F[Len(rows)]

\* Reminders & Tracking with the Taken or Missed button of due row idx clicked:
\* log_dose(patient_id, Medication_ID, Scheduled, status).
LogDose1(pat_choice, idx, status, t) ==
    /\ app = "1medipredict"
    /\ \E i \in 1..Len(users.patients) : users.patients[i].name = pat_choice
    /\ t \in Times /\ t >= now
    /\ Len(doses) < MaxDoses
    /\ LET pid == PatientId1(pat_choice)
           due == due_df(pid, t)
       IN /\ idx \in 1..Len(due)
          /\ doses' = Append(doses, [id |-> NextId(doses), user |-> pid,
                                     med |-> due[idx].med, ts |-> t, status |-> status])
          /\ last' = [NoLast EXCEPT !.op = "log_dose", !.user = pid,
                                    !.med = due[idx].med, !.status = status,
                                    !.id = NextId(doses), !.out = "ok"]
    /\ now' = t
    /\ insight' = NoInsight
    /\ UNCHANGED <<app, users, meds, ses, reminders>>

\* Adherence Insights for the selected patient: get_logs(patient_id), the
\* missed-rate pivot by hour and date, the status counts.
AdherenceInsights1(pat_choice) ==
    /\ app = "1medipredict"
    /\ \E i \in 1..Len(users.patients) : users.patients[i].name = pat_choice
    /\ LET pid == PatientId1(pat_choice)
           logs == get_logs1(pid)
           base == [NoInsight EXCEPT !.op = "view", !.user = pid, !.logs = logs]
       IN /\ insight' =
               IF logs = <<>> THEN [base EXCEPT !.outcome = "NoLogs"]
               ELSE [base EXCEPT !.outcome = "Heat",
                                 !.heat = {[hour |-> hour(logs[i].ts),
                                            date |-> (36 * logs[i].ts + 8) \div 24] :
                                           i \in 1..Len(logs)},
                                 !.classes = {logs[i].status : i \in 1..Len(logs)}]
          /\ last' = [NoLast EXCEPT !.op = "view", !.user = pid]
    /\ UNCHANGED <<app, users, meds, doses, ses, now, reminders>>

\* Mutant of taken1: the flag is inverted.
taken1_Inverted(s) == IF s = "Taken" THEN 0 ELSE 1

\* logs["status"].apply(lambda s: 1 if s == "Taken" else 0)
taken1(s) == IF s = "Taken" THEN 1 ELSE 0

\* Risk Prediction: logs = get_logs() with no patient, the taken column of
\* every row, train_test_split with test_size=0.25 (the test part is rounded
\* up), LogisticRegression on the train part. train is the set of row numbers
\* the split puts in the train part.
RiskPrediction1(train) ==
    /\ app = "1medipredict"
    /\ LET logs == get_logs1(NoUid)
           n_test == (Len(logs) + 3) \div 4
           taken == [i \in 1..Len(logs) |-> taken1(logs[i].status)]
           base == [NoInsight EXCEPT !.op = "view", !.user = NoUid, !.logs = logs,
                                     !.y = taken]
       IN /\ train \subseteq 1..Len(logs)
          /\ Cardinality(train) = Len(logs) - n_test
          /\ insight' =
               IF logs = <<>> THEN [base EXCEPT !.outcome = "NoLogs"]
               ELSE IF train = {} THEN [base EXCEPT !.outcome = "ValueError"]
               ELSE LET y == [i \in 1..Cardinality(train) |->
                                 taken[SetToSeq(train)[i]]]
                        fit == LogisticRegression_fit(Unfit, y)
                    IN IF fit.error # "none"
                       THEN [base EXCEPT !.outcome = fit.error, !.classes = Range(y),
                                         !.fit_rows = fit.rows]
                       ELSE [base EXCEPT !.outcome = "Risk", !.est = fit.est.state,
                                         !.classes = fit.est.classes,
                                         !.fit_rows = fit.rows]
          /\ last' = [NoLast EXCEPT !.op = "view"]
    /\ UNCHANGED <<app, users, meds, doses, ses, now, reminders>>

Next1 ==
    \/ \E n \in DoctorNames1 : AddDoctor1(n)
    \/ \E n \in PatientNames1 : AddPatient1(n)
    \/ \E pt \in PatientNames1, m \in MedNames, tm \in DoseTimes1 :
          AddPrescription1(pt, m, tm)
    \/ \E pt \in PatientNames1, idx \in 1..MaxMeds, st \in Statuses, t \in Times :
          LogDose1(pt, idx, st, t)
    \/ \E pt \in PatientNames1 : AdherenceInsights1(pt)
    \/ \E train \in SUBSET (1..(MaxDoses + 1)) : RiskPrediction1(train)

\* The tables after init_db().
Init1 ==
    /\ app = "1medipredict"
    /\ users = [doctors |-> <<>>, patients |-> <<>>]
    /\ meds = <<>> /\ doses = <<>>
    /\ ses = <<>>
    /\ now = 0
    /\ insight = NoInsight
    /\ last = NoLast
    /\ reminders = <<>>

(* ------------------- src/7medi.py and src/5medi.py ---------------------- *)
Usernames7 == {"", "ann", "bob"}
Passwords7 == {"", "pw", "pw2"}

\* bcrypt.gensalt()
Salts == {1, 2}

\* bcrypt.hashpw(password.encode(), salt): a bytes value
hashpw(password, salt) ==
    [type |-> "bytes", alg |-> "bcrypt", salt |-> salt, pw |-> password]

\* bcrypt.checkpw(password.encode(), hashed) for a bytes value hashed: the
\* password is hashed with the salt of hashed and compared.
checkpw(password, hashed) == hashpw(password, hashed.salt) = hashed

\* bytes.decode('utf-8') and str.encode('utf-8') of a stored hash; a bytes
\* value has no encode (AttributeError).
decode(v) == [v EXCEPT !.type = "str"]
encode(v) == IF v.type = "str" THEN [ok |-> TRUE, v |-> [v EXCEPT !.type = "bytes"]]
             ELSE [ok |-> FALSE, v |-> v]

\* src/7medi.py hash_password: the hash is stored as str
hash_password7(password, salt) == decode(hashpw(password, salt))

\* src/7medi.py verify_password(plain_password, hashed_password)
verify_password7(plain_password, hashed_password) ==
    LET h == encode(hashed_password)
    IN IF h.ok THEN [error |-> "none", ok |-> checkpw(plain_password, h.v)]
       ELSE [error |-> "AttributeError", ok |-> FALSE]

\* get_user(db, username): the first row with that username, as a sequence
get_user7(username) == SelectSeq(users, LAMBDA r : r.username = username)

Session7 == [logged_in |-> FALSE, username |-> "", page |-> "Login", pc |-> "idle",
             u |-> "", pw |-> ""]

\* The sidebar selectbox of src/7medi.py.
Choose7(s, page) ==
    /\ app = "7medi" /\ s \in DOMAIN ses
    /\ ~ses[s].logged_in /\ ses[s].pc = "idle"
    /\ ses' = [ses EXCEPT ![s].page = page]
    /\ last' = [NoLast EXCEPT !.op = "nav", !.ses = s, !.out = page]
    /\ UNCHANGED <<app, users, meds, doses, now, insight, reminders>>

\* register_page with Register clicked, up to the test of get_user.
RegisterCheck7(s, username, password, password_confirm) ==
    /\ app = "7medi" /\ s \in DOMAIN ses
    /\ ~ses[s].logged_in /\ ses[s].page = "Register" /\ ses[s].pc = "idle"
    /\ IF username = "" \/ password = "" \/ password_confirm = ""
       THEN /\ last' = [NoLast EXCEPT !.op = "register", !.ses = s,
                                      !.name = username, !.out = "required"]
            /\ UNCHANGED ses
       ELSE IF password # password_confirm
       THEN /\ last' = [NoLast EXCEPT !.op = "register", !.ses = s,
                                      !.name = username, !.out = "mismatch"]
            /\ UNCHANGED ses
       ELSE IF get_user7(username) # <<>>
       THEN /\ last' = [NoLast EXCEPT !.op = "register", !.ses = s,
                                      !.name = username, !.out = "taken"]
            /\ UNCHANGED ses
       ELSE /\ last' = [NoLast EXCEPT !.op = "register", !.ses = s,
                                      !.name = username, !.out = "checked"]
            /\ ses' = [ses EXCEPT ![s].pc = "checked", ![s].u = username,
                                  ![s].pw = password]
    /\ UNCHANGED <<app, users, meds, doses, now, insight, reminders>>

\* Mutant of RegisterCommit7: the username column has no unique constraint.
RegisterCommit7_NoUnique(s, salt) ==
    /\ app = "7medi" /\ s \in DOMAIN ses
    /\ ses[s].pc = "checked"
    /\ users' = Append(users, [id |-> NextId(users), username |-> ses[s].u,
                               password |-> hash_password7(ses[s].pw, salt)])
    /\ last' = [NoLast EXCEPT !.op = "register", !.ses = s, !.name = ses[s].u,
                              !.out = "created"]
    /\ ses' = [ses EXCEPT ![s].pc = "idle", ![s].u = "", ![s].pw = ""]
    /\ UNCHANGED <<app, meds, doses, now, insight, reminders>>

\* The rest of that script run: hash_password, db.add, db.commit. The username
\* column is unique, so the commit of a username that is in the table by now
\* raises IntegrityError and stores nothing.
RegisterCommit7(s, salt) ==
    /\ app = "7medi" /\ s \in DOMAIN ses
    /\ ses[s].pc = "checked"
    /\ IF get_user7(ses[s].u) # <<>>
       THEN /\ last' = [NoLast EXCEPT !.op = "register", !.ses = s, !.name = ses[s].u,
                                      !.out = "IntegrityError"]
            /\ UNCHANGED users
       ELSE /\ users' = Append(users, [id |-> NextId(users), username |-> ses[s].u,
                                       password |-> hash_password7(ses[s].pw, salt)])
            /\ last' = [NoLast EXCEPT !.op = "register", !.ses = s, !.name = ses[s].u,
                                      !.out = "created"]
    /\ ses' = [ses EXCEPT ![s].pc = "idle", ![s].u = "", ![s].pw = ""]
    /\ UNCHANGED <<app, meds, doses, now, insight, reminders>>

\* login_page with Login clicked.
Login7(s, username, password) ==
    /\ app = "7medi" /\ s \in DOMAIN ses
    /\ ~ses[s].logged_in /\ ses[s].page = "Login" /\ ses[s].pc = "idle"
    /\ LET rows == get_user7(username)
           rec == [NoLast EXCEPT !.op = "login", !.ses = s, !.name = username,
                                 !.pw = password]
       IN IF username = "" \/ password = ""
          THEN /\ last' = [rec EXCEPT !.out = "required"]
               /\ UNCHANGED ses
          ELSE IF rows # <<>> /\ verify_password7(password, rows[1].password).ok
          THEN /\ ses' = [ses EXCEPT ![s].logged_in = TRUE, ![s].username = username]
               /\ last' = [rec EXCEPT !.out = "ok"]
          ELSE /\ last' = [rec EXCEPT !.out = "invalid"]
               /\ UNCHANGED ses
    /\ UNCHANGED <<app, users, meds, doses, now, insight, reminders>>

\* main_app with Logout clicked.
Logout7(s) ==
    /\ app = "7medi" /\ s \in DOMAIN ses
    /\ ses[s].logged_in
    /\ ses' = [ses EXCEPT ![s].logged_in = FALSE, ![s].username = ""]
    /\ last' = [NoLast EXCEPT !.op = "logout", !.ses = s, !.out = "ok"]
    /\ UNCHANGED <<app, users, meds, doses, now, insight, reminders>>

Next7 ==
    \E s \in Sessions :
       \/ \E pg \in {"Login", "Register"} : Choose7(s, pg)
       \/ \E u \in Usernames7, p \in Passwords7, c \in Passwords7 :
             RegisterCheck7(s, u, p, c)
       \/ \E salt \in Salts : RegisterCommit7(s, salt)
       \/ \E u \in Usernames7, p \in Passwords7 : Login7(s, u, p)
       \/ Logout7(s)

\* The empty users table and two sessions with their defaults.
Init7 ==
    /\ app = "7medi"
    /\ users = <<>> /\ meds = <<>> /\ doses = <<>>
    /\ ses = [s \in Sessions |-> Session7]
    /\ now = 0
    /\ insight = NoInsight
    /\ last = NoLast
    /\ reminders = <<>>

\* src/5medi.py hash_password: the bytes value of bcrypt.hashpw, stored as it is
hash_password5(password, salt) == hashpw(password, salt)

\* src/5medi.py login_page: verify_password(password,
\* user.password_hash.encode('utf-8'))
verify_password5(password, password_hash) ==
    LET h == encode(password_hash)
    IN IF h.ok THEN [error |-> "none", ok |-> checkpw(password, h.v)]
       ELSE [error |-> "AttributeError", ok |-> FALSE]

Session5 == [logged_in |-> FALSE, username |-> "", page |-> "front"]

\* The buttons that only set the page: Get Started, Register, Back to Login.
Goto5(s, page) ==
    /\ app = "5medi" /\ s \in DOMAIN ses
    /\ \/ ses[s].page = "front" /\ page = "login"
       \/ ses[s].page = "login" /\ page = "register"
       \/ ses[s].page = "register" /\ page = "login"
    /\ ses' = [ses EXCEPT ![s].page = page]
    /\ last' = [NoLast EXCEPT !.op = "nav", !.ses = s, !.out = page]
    /\ UNCHANGED <<app, users, meds, doses, now, insight, reminders>>

\* register_page with Register clicked.
Register5(s, new_username, new_password, confirm_password, salt) ==
    /\ app = "5medi" /\ s \in DOMAIN ses
    /\ ses[s].page = "register" /\ ~ses[s].logged_in
    /\ LET rec == [NoLast EXCEPT !.op = "register", !.ses = s, !.name = new_username]
       IN IF new_password # confirm_password
          THEN last' = [rec EXCEPT !.out = "mismatch"] /\ UNCHANGED <<users, ses>>
          ELSE IF get_user7(new_username) # <<>>
          THEN last' = [rec EXCEPT !.out = "taken"] /\ UNCHANGED <<users, ses>>
          ELSE IF new_username = "" \/ new_password = ""
          THEN last' = [rec EXCEPT !.out = "required"] /\ UNCHANGED <<users, ses>>
          ELSE /\ users' = Append(users, [id |-> NextId(users),
                                          username |-> new_username,
                                          password |-> hash_password5(new_password,
                                                                      salt)])
               /\ ses' = [ses EXCEPT ![s].page = "login"]
               /\ last' = [rec EXCEPT !.out = "created"]
    /\ UNCHANGED <<app, meds, doses, now, insight, reminders>>

\* login_page with Login clicked. The stored hash comes back from the String
\* column as the bytes value that was stored, and .encode is called on it. No
\* login ends with logged_in set, so dashboard_page and its Logout are never
\* rendered.
Login5(s, username, password) ==
    /\ app = "5medi" /\ s \in DOMAIN ses
    /\ ses[s].page = "login" /\ ~ses[s].logged_in
    /\ LET rows == get_user7(username)
           rec == [NoLast EXCEPT !.op = "login", !.ses = s, !.name = username,
                                 !.pw = password]
       IN IF rows = <<>>
          THEN last' = [rec EXCEPT !.out = "invalid"] /\ UNCHANGED ses
          ELSE LET v == verify_password5(password, rows[1].password)
               IN IF v.error # "none"
                  THEN last' = [rec EXCEPT !.out = v.error] /\ UNCHANGED ses
                  ELSE IF v.ok
                  THEN /\ ses' = [ses EXCEPT ![s].logged_in = TRUE,
                                             ![s].username = username,
                                             ![s].page = "dashboard"]
                       /\ last' = [rec EXCEPT !.out = "ok"]
                  ELSE last' = [rec EXCEPT !.out = "invalid"] /\ UNCHANGED ses
    /\ UNCHANGED <<app, users, meds, doses, now, insight, reminders>>

Next5 ==
    \E s \in Sessions :
       \/ \E pg \in {"login", "register"} : Goto5(s, pg)
       \/ \E u \in Usernames7, p \in Passwords7, c \in Passwords7, salt \in Salts :
             Register5(s, u, p, c, salt)
       \/ \E u \in Usernames7, p \in Passwords7 : Login5(s, u, p)

Init5 ==
    /\ app = "5medi"
    /\ users = <<>> /\ meds = <<>> /\ doses = <<>>
    /\ ses = [s \in {"s1"} |-> Session5]
    /\ now = 0
    /\ insight = NoInsight
    /\ last = NoLast
    /\ reminders = <<>>

\* src/15.py with two sessions, for its registration and login pages; the
\* inputs of the forms are kept in the record of the step.
InitAuth15 ==
    /\ app = "15"
    /\ users = <<>> /\ meds = <<>> /\ doses = <<>>
    /\ ses = [s \in Sessions |-> Session15]
    /\ now = 0
    /\ insight = NoInsight
    /\ last = NoLast
    /\ reminders = <<>>

NextAuth15 ==
    \E s \in Sessions :
       \/ \E p \in {"home", "login", "reg", "logout"} : Nav15(s, p, 8, "Monday")
       \/ \E u \in Usernames, p \in Passwords7 :
             RegisterAs15(s, u, p, [NoLast EXCEPT !.name = u])
       \/ \E u \in Usernames, p \in Passwords7 :
             LoginAs15(s, u, p, [NoLast EXCEPT !.name = u, !.pw = p])

NextAuth4 ==
    \E s \in Sessions :
       \/ \E u \in Usernames4, pw \in Passwords4 : Login4(s, u, pw)
       \/ \E u \in Usernames4, pw \in Passwords4, r \in Roles4, ph \in {"", "+91"} :
             Register4(s, u, pw, r, ph)
       \/ Logout4(s)

(* ------------------------------ src/10med.py ---------------------------- *)
\* A nullable column that was never written.
Null10 == "NULL"

\* The four text inputs of the profile form, in the order doctor_name,
\* doctor_phone, emergency_contact, medical_notes.
ProfileInputs10 ==
    { <<"", "", "", "">>,
      <<"Dr Rao", "", "112", "">>,
      <<"Dr Rao", "555", "mom", "asthma">> }

Session10 == [page |-> "front", logged_in |-> FALSE, username |-> ""]

\* get_password_hash: the bytes value of bcrypt.hashpw
get_password_hash(password, salt) == hashpw(password, salt)

\* verify_password(plain_password, hashed_password): the stored bytes value
\* goes to bcrypt.checkpw as it is
verify_password10(plain_password, hashed_password) ==
    checkpw(plain_password, hashed_password)

\* create_user(db, username, password): the row that is added
create_user10(username, password, salt) ==
    [id |-> NextId(users), username |-> username,
     password |-> get_password_hash(password, salt),
     doctor_name |-> Null10, doctor_phone |-> Null10,
     emergency_contact |-> Null10, medical_notes |-> Null10]

\* The index in users of the row get_user(db, username) returns.
UserIndex10(username) ==
    CHOOSE i \in 1..Len(users) : users[i].username = username

\* Mutant of update_profile: the UPDATE has no WHERE clause.
update_profile_AllRows(i, doctor_name, doctor_phone, emergency_contact, medical_notes) ==
    [j \in 1..Len(users) |->
        [users[j] EXCEPT !.doctor_name = doctor_name,
                         !.doctor_phone = doctor_phone,
                         !.emergency_contact = emergency_contact,
                         !.medical_notes = medical_notes]]

\* update_profile(db, user, ...) for the row users[i]: the users table after
\* the commit
update_profile(i, doctor_name, doctor_phone, emergency_contact, medical_notes) ==
    [users EXCEPT ![i].doctor_name = doctor_name,
                  ![i].doctor_phone = doctor_phone,
                  ![i].emergency_contact = emergency_contact,
                  ![i].medical_notes = medical_notes]

\* The buttons that only set the page: Get Started and Go to Register.
Goto10(s, page) ==
    /\ app = "10med" /\ s \in DOMAIN ses
    /\ \/ ses[s].page = "front" /\ page = "login"
       \/ ses[s].page = "login" /\ ~ses[s].logged_in /\ page = "register"
    /\ ses' = [ses EXCEPT ![s].page = page]
    /\ last' = [NoLast EXCEPT !.op = "nav", !.ses = s, !.out = page]
    /\ UNCHANGED <<app, users, meds, doses, now, insight, reminders>>

\* register_page with Register clicked. The username column is unique: a
\* username that is in the table is refused.
Register10(s, username, password, password2, salt) ==
    /\ app = "10med" /\ s \in DOMAIN ses
    /\ ses[s].page = "register" /\ ~ses[s].logged_in
    /\ LET rec == [NoLast EXCEPT !.op = "register", !.ses = s, !.name = username]
       IN IF username = "" \/ password = ""
          THEN last' = [rec EXCEPT !.out = "required"] /\ UNCHANGED <<users, ses>>
          ELSE IF password # password2
          THEN last' = [rec EXCEPT !.out = "mismatch"] /\ UNCHANGED <<users, ses>>
          ELSE IF get_user7(username) # <<>>
          THEN last' = [rec EXCEPT !.out = "taken"] /\ UNCHANGED <<users, ses>>
          ELSE /\ users' = Append(users, create_user10(username, password, salt))
               /\ ses' = [ses EXCEPT ![s].page = "login"]
               /\ last' = [rec EXCEPT !.out = "created"]
    /\ UNCHANGED <<app, meds, doses, now, insight, reminders>>

\* login_page with Login clicked.
Login10(s, username, password) ==
    /\ app = "10med" /\ s \in DOMAIN ses
    /\ ses[s].page = "login" /\ ~ses[s].logged_in
    /\ LET rows == get_user7(username)
           rec == [NoLast EXCEPT !.op = "login", !.ses = s, !.name = username,
                                 !.pw = password]
       IN IF rows # <<>> /\ verify_password10(password, rows[1].password)
          THEN /\ ses' = [ses EXCEPT ![s].logged_in = TRUE,
                                     ![s].username = username,
                                     ![s].page = "main"]
               /\ last' = [rec EXCEPT !.out = "ok"]
          ELSE last' = [rec EXCEPT !.out = "invalid"] /\ UNCHANGED ses
    /\ UNCHANGED <<app, users, meds, doses, now, insight, reminders>>

\* profile_page with Save Profile submitted: the row of the session's username
\* is read and update_profile writes the four inputs to it.
SaveProfile10(s, inp) ==
    /\ app = "10med" /\ s \in DOMAIN ses
    /\ ses[s].page = "main" /\ ses[s].logged_in
    /\ users' = update_profile(UserIndex10(ses[s].username),
                               inp[1], inp[2], inp[3], inp[4])
    /\ last' = [NoLast EXCEPT !.op = "save_profile", !.ses = s,
                              !.name = ses[s].username, !.out = "updated"]
    /\ UNCHANGED <<app, meds, doses, ses, now, insight, reminders>>

\* profile_page with Logout clicked: the username stays in the session state.
Logout10(s) ==
    /\ app = "10med" /\ s \in DOMAIN ses
    /\ ses[s].page = "main" /\ ses[s].logged_in
    /\ ses' = [ses EXCEPT ![s].logged_in = FALSE, ![s].page = "login"]
    /\ last' = [NoLast EXCEPT !.op = "logout", !.ses = s, !.out = "ok"]
    /\ UNCHANGED <<app, users, meds, doses, now, insight, reminders>>

Next10 ==
    \E s \in Sessions :
       \/ \E pg \in {"login", "register"} : Goto10(s, pg)
       \/ \E u \in Usernames7, p \in {"", "pw"}, p2 \in {"", "pw"}, salt \in Salts :
             Register10(s, u, p, p2, salt)
       \/ \E u \in Usernames7, p \in {"pw", "pw2"} : Login10(s, u, p)
       \/ \E inp \in ProfileInputs10 : SaveProfile10(s, inp)
       \/ Logout10(s)

\* The empty users table and two sessions on the front page.
Init10 ==
    /\ app = "10med"
    /\ users = <<>> /\ meds = <<>> /\ doses = <<>>
    /\ ses = [s \in Sessions |-> Session10]
    /\ now = 0
    /\ insight = NoInsight
    /\ last = NoLast
    /\ reminders = <<>>

Spec10 == Init10 /\ [][Next10]_vars

(* ---- the three places that fit a model: src/15.py, 12medi, 1medipredict -- *)
\* train_predictor of src/12medi.py called for two users over a log of ann's
\* and bob's doses of one medicine.
NextFitStore ==
    \/ AddMedCall("ann", <<8, 0>>)
    \/ \E u \in {"ann", "bob"}, k \in {0, 1} : LogDoseCall(u, 1, k, 0)
    \/ \E u \in {"ann", "bob"} : TrainPredictorCall(u)

\* src/1medipredict.py with one patient and one prescription.
NextFit1 ==
    \/ AddDoctor1("drsmith")
    \/ AddPatient1("ann")
    \/ AddPrescription1("ann", "Metformin", {"08:00", "20:00"})
    \/ \E st \in Statuses, t \in Times : LogDose1("ann", 1, st, t)
    \/ \E train \in SUBSET (1..(MaxDoses + 1)) : RiskPrediction1(train)

InitFit == Init15 \/ InitStore \/ Init1
NextFit == Next15 \/ NextFitStore \/ NextFit1
SpecFit == InitFit /\ [][NextFit]_vars

(* ------------- src/12medi.py: the auto-seed of main(), in steps --------- *)
\* Each session runs main() in its own thread; pc is where the session's run
\* is inside the auto-seed: "idle" (no run inside it), "create" (get_user("demo")
\* returned None), "add1" and "add2" (create_user done, add_med calls pending).
SeedRun == [pc |-> "idle"]

\* if get_user("demo") is None:
MainCheck12(s) ==
    /\ app = "12seed" /\ ses[s].pc = "idle"
    /\ ses' = [ses EXCEPT ![s].pc = IF NoUser12(users, "demo") THEN "create" ELSE "idle"]
    /\ last' = [NoLast EXCEPT !.op = "main", !.ses = s,
                              !.out = IF NoUser12(users, "demo") THEN "seed" ELSE "skip"]
    /\ UNCHANGED <<app, users, meds, doses, now, insight, reminders>>

\* Mutant of MainCreate12: username is not the key of the users table.
MainCreate12_NoKey(s) ==
    /\ app = "12seed" /\ ses[s].pc = "create"
    /\ users' = Append(users, [username |-> "demo", password |-> hash_pw("demo")])
    /\ ses' = [ses EXCEPT ![s].pc = "add1"]
    /\ last' = [NoLast EXCEPT !.op = "create_user", !.ses = s, !.out = "ok"]
    /\ UNCHANGED <<app, meds, doses, now, insight, reminders>>

\* create_user("demo", ...): username is the PRIMARY KEY of users, the INSERT
\* of a second demo raises IntegrityError and ends the script run.
MainCreate12(s) ==
    /\ app = "12seed" /\ ses[s].pc = "create"
    /\ IF NoUser12(users, "demo")
       THEN /\ users' = Append(users, [username |-> "demo",
                                       password |-> hash_pw("demo")])
            /\ ses' = [ses EXCEPT ![s].pc = "add1"]
            /\ last' = [NoLast EXCEPT !.op = "create_user", !.ses = s, !.out = "ok"]
       ELSE /\ ses' = [ses EXCEPT ![s].pc = "idle"]
            /\ last' = [NoLast EXCEPT !.op = "create_user", !.ses = s,
                                      !.out = "IntegrityError"]
            /\ UNCHANGED users
    /\ UNCHANGED <<app, meds, doses, now, insight, reminders>>

\* add_med("demo", "Metformin", "500 mg", "08:00") and
\* add_med("demo", "Atorvastatin", "20 mg", "21:00")
MainAddMed12(s) ==
    /\ app = "12seed" /\ ses[s].pc \in {"add1", "add2"}
    /\ meds' = IF ses[s].pc = "add1"
               THEN add_med(meds, "demo", "Metformin", "500 mg", "08:00")
               ELSE add_med(meds, "demo", "Atorvastatin", "20 mg", "21:00")
    /\ ses' = [ses EXCEPT ![s].pc = IF @ = "add1" THEN "add2" ELSE "idle"]
    /\ last' = [NoLast EXCEPT !.op = "seed_med", !.ses = s, !.id = NextId(meds),
                              !.out = "ok"]
    /\ UNCHANGED <<app, users, doses, now, insight, reminders>>

\* A run that is past the auto-seed: register_screen creates the user u, or
\* schedule_tab adds a medicine for the logged-in user u.
AfterSeed12(s, u, adds) ==
    /\ app = "12seed" /\ ses[s].pc = "idle"
    /\ ~NoUser12(users, "demo")
    /\ IF adds
       THEN /\ ~NoUser12(users, u)
            /\ Len(meds) < SeedMeds + MaxMeds
            /\ meds' = add_med(meds, u, "Metformin", "500mg", strftime_HM(<<8, 0>>))
            /\ last' = [NoLast EXCEPT !.op = "add_med", !.ses = s, !.id = NextId(meds),
                                      !.out = "ok"]
            /\ UNCHANGED users
       ELSE /\ NoUser12(users, u)
            /\ users' = Append(users, [username |-> u, password |-> hash_pw("demo")])
            /\ last' = [NoLast EXCEPT !.op = "register", !.ses = s, !.out = "created"]
            /\ UNCHANGED meds
    /\ UNCHANGED <<app, doses, ses, now, insight, reminders>>

NextSeed ==
    \E s \in Sessions :
       \/ MainCheck12(s)
       \/ MainCreate12(s)
       \/ MainAddMed12(s)
       \/ \E u \in Usernames12, adds \in BOOLEAN : AfterSeed12(s, u, adds)

\* The tables after the first init_db(), before any run of main().
InitSeed ==
    /\ app = "12seed"
    /\ users = <<>> /\ meds = <<>> /\ doses = <<>>
    /\ ses = [s \in Sessions |-> SeedRun]
    /\ now = 0
    /\ insight = NoInsight
    /\ last = NoLast
    /\ reminders = <<>>

SpecSeed == InitSeed /\ [][NextSeed]_vars

(* ------------------------------ src/13.py ------------------------------- *)
\* with sqlite3.connect(...) as conn: the connection commits the pending
\* transaction when the block ends normally and rolls it back when an exception
\* leaves the block (st.experimental_rerun and st.stop raise one).
conn_exit(before, pending, raised) == IF raised THEN before ELSE pending

Session13 == [logged_in |-> FALSE, user_id |-> NoUid, opt |-> "Home"]

\* The options of the sidebar radio.
Menu13(logged_in) == IF logged_in THEN {"Home", "Dashboard"}
                     ELSE {"Home", "Register", "Login"}

\* The sidebar radio: the chosen page is shown. No medication is ever stored
\* (see AddMed13), so the Log tab shows "Add a medication first." and the
\* Insights tab the no-logs message.
Nav13(s, opt) ==
    /\ app = "13" /\ s \in DOMAIN ses
    /\ opt \in Menu13(ses[s].logged_in)
    /\ ses' = [ses EXCEPT ![s].opt = opt]
    /\ insight' = IF opt = "Dashboard" THEN InsightsTab15(ses[s].user_id, 8, "Monday")
                  ELSE NoInsight
    /\ last' = [NoLast EXCEPT !.op = "nav", !.ses = s, !.user = ses[s].user_id,
                              !.out = opt]
    /\ UNCHANGED <<app, users, meds, doses, now, reminders>>

\* show_register with Register clicked: the INSERT runs inside the with block,
\* which ends normally whether or not IntegrityError was caught.
Register13(s, u, p) ==
    /\ app = "13" /\ s \in DOMAIN ses
    /\ ses[s].opt = "Register"
    /\ insight' = NoInsight
    /\ UNCHANGED <<app, meds, doses, ses, now, reminders>>
    /\ IF \E i \in 1..Len(users) : users[i].username = u
       THEN /\ last' = [NoLast EXCEPT !.op = "register", !.ses = s, !.out = "taken"]
            /\ UNCHANGED users
       ELSE /\ users' = conn_exit(users,
                           Append(users, [id |-> NextId(users), username |-> u,
                                          password |-> hash_pw(p)]), FALSE)
            /\ last' = [NoLast EXCEPT !.op = "register", !.ses = s,
                                      !.id = NextId(users), !.out = "created"]

\* show_login with Login clicked: on a match the session is logged in and the
\* script reruns; the radio then has the options Home and Dashboard and shows
\* the first of them.
Login13(s, u, p) ==
    /\ app = "13" /\ s \in DOMAIN ses
    /\ ses[s].opt = "Login"
    /\ insight' = NoInsight
    /\ UNCHANGED <<app, users, meds, doses, now, reminders>>
    /\ LET rows == SelectSeq(users, LAMBDA r : r.username = u /\ r.password = hash_pw(p))
       IN IF rows # <<>>
          THEN /\ ses' = [ses EXCEPT ![s] = [logged_in |-> TRUE, user_id |-> rows[1].id,
                                             opt |-> "Home"]]
               /\ last' = [NoLast EXCEPT !.op = "login", !.ses = s,
                                         !.user = rows[1].id, !.out = "ok"]
          ELSE /\ UNCHANGED ses
               /\ last' = [NoLast EXCEPT !.op = "login", !.ses = s, !.out = "invalid"]

\* The Medication tab with Add submitted: the INSERT runs inside the with
\* block of the connection and is not committed there; st.experimental_rerun()
\* raises inside the block, and the script runs again from the tables.
AddMed13(s, m, sc) ==
    /\ app = "13" /\ s \in DOMAIN ses
    /\ ses[s].opt = "Dashboard" /\ ses[s].logged_in
    /\ meds' = conn_exit(meds,
                  Append(meds, [id |-> NextId(meds), user |-> ses[s].user_id,
                                med_name |-> m, dosage |-> "500mg",
                                schedule |-> sc]), TRUE)
    /\ insight' = InsightsTab15(ses[s].user_id, 8, "Monday")
    /\ last' = [NoLast EXCEPT !.op = "add_med", !.ses = s, !.user = ses[s].user_id,
                              !.id = NextId(meds), !.name = m, !.out = "rerun"]
    /\ UNCHANGED <<app, users, doses, ses, now, reminders>>

Next13 ==
    \/ \E opt \in {"Home", "Register", "Login", "Dashboard"} : Nav13("s1", opt)
    \/ \E u \in Usernames, p \in Passwords : Register13("s1", u, p)
    \/ \E u \in Usernames, p \in Passwords : Login13("s1", u, p)
    \/ \E m \in MedNames, sc \in Schedules : AddMed13("s1", m, sc)

\* The tables after init_db(), one session at the home page.
Init13 ==
    /\ app = "13"
    /\ users = <<>> /\ meds = <<>> /\ doses = <<>>
    /\ ses = [s \in {"s1"} |-> Session13]
    /\ now = 0
    /\ insight = NoInsight
    /\ last = NoLast
    /\ reminders = <<>>

(* ------------------------------ src/14.py ------------------------------- *)
\* The page names the router knows; the route is the page parameter of the URL.
Routes14 == {"home", "register", "login", "dashboard", "logout"}

\* The session defaults; route is what the URL of the browser tab holds.
Session14 == [logged_in |-> FALSE, user_id |-> NoUid, rerun |-> FALSE, route |-> "home"]

\* page_logout: the flag is set and st.stop() ends the script run.
page_logout14(s, route) ==
    /\ ses' = [ses EXCEPT ![s] = [logged_in |-> FALSE, user_id |-> NoUid,
                                  rerun |-> TRUE, route |-> route]]
    /\ insight' = NoInsight
    /\ last' = [NoLast EXCEPT !.op = "logout", !.ses = s, !.out = "stop"]

\* The router and the safe rerun handler for a script run in which no form is
\* submitted and no button clicked, from the session state st: page_dashboard
\* computes the Insights tab, whose exception ends the run before the handler;
\* a run that reaches the handler ends with the flag cleared.
Route14(s, st, h, d, rec) ==
    CASE st.route = "logout" -> page_logout14(s, st.route)
      [] st.route = "dashboard" /\ st.logged_in ->
            \E uid \in {st.user_id} : \E v \in {InsightsTab15(uid, h, d)'} :
               /\ insight' = v
               /\ ses' = [ses EXCEPT ![s] =
                            [st EXCEPT !.rerun = IF v.outcome \in {"NoLogs", "Risk"}
                                                 THEN FALSE ELSE @]]
               /\ last' = [rec EXCEPT !.ses = s, !.user = st.user_id,
                                      !.out = v.outcome]
      [] OTHER ->
            /\ ses' = [ses EXCEPT ![s] = [st EXCEPT !.rerun = FALSE]]
            /\ insight' = NoInsight
            /\ last' = [rec EXCEPT !.ses = s,
                                   !.out = IF st.route = "dashboard" THEN "login"
                                           ELSE st.route]

\* The browser tab opens the URL with page=route: a new session with the
\* session defaults, and the first script run of it.
Load14(s, route) ==
    /\ app = "14" /\ s \in DOMAIN ses
    /\ UNCHANGED <<app, users, meds, doses, now, reminders>>
    /\ Route14(s, [Session14 EXCEPT !.route = route], 8, "Monday",
               [NoLast EXCEPT !.op = "load"])

\* A widget of the page changes (the slider, the Day selectbox): the script
\* runs again in the same session with the same URL.
Rerun14(s, h, d) ==
    /\ app = "14" /\ s \in DOMAIN ses
    /\ h \in HourChoices15(ses[s].user_id) /\ d \in DayChoices15(ses[s].user_id)
    /\ UNCHANGED <<app, users, meds, doses, now, reminders>>
    /\ Route14(s, ses[s], h, d, [NoLast EXCEPT !.op = "view"])

\* page_register with the form submitted.
Register14(s, u, p) ==
    /\ app = "14" /\ s \in DOMAIN ses
    /\ ses[s].route = "register"
    /\ insight' = NoInsight
    /\ ses' = [ses EXCEPT ![s].rerun = FALSE]
    /\ UNCHANGED <<app, meds, doses, now, reminders>>
    /\ IF u = "" \/ p = ""
       THEN /\ last' = [NoLast EXCEPT !.op = "register", !.ses = s, !.out = "required"]
            /\ UNCHANGED users
       ELSE IF \E i \in 1..Len(users) : users[i].username = u
            THEN /\ last' = [NoLast EXCEPT !.op = "register", !.ses = s, !.out = "taken"]
                 /\ UNCHANGED users
            ELSE /\ users' = conn_exit(users,
                                Append(users, [id |-> NextId(users), username |-> u,
                                               password |-> hash_pw(p)]), FALSE)
                 /\ last' = [NoLast EXCEPT !.op = "register", !.ses = s,
                                           !.id = NextId(users), !.out = "created"]

\* page_login with the form submitted (the router also shows it for the route
\* "dashboard" while the session is not logged in): on a match the session is
\* logged in, the flag is set and st.stop() ends the script run.
Login14(s, u, p) ==
    /\ app = "14" /\ s \in DOMAIN ses
    /\ \/ ses[s].route = "login"
       \/ ses[s].route = "dashboard" /\ ~ses[s].logged_in
    /\ insight' = NoInsight
    /\ UNCHANGED <<app, users, meds, doses, now, reminders>>
    /\ LET rows == SelectSeq(users, LAMBDA r : r.username = u /\ r.password = hash_pw(p))
       IN IF rows # <<>>
          THEN /\ ses' = [ses EXCEPT ![s].logged_in = TRUE, ![s].user_id = rows[1].id,
                                     ![s].rerun = TRUE]
               /\ last' = [NoLast EXCEPT !.op = "login", !.ses = s,
                                         !.user = rows[1].id, !.name = u, !.pw = p,
                                         !.out = "ok"]
          ELSE /\ ses' = [ses EXCEPT ![s].rerun = FALSE]
               /\ last' = [NoLast EXCEPT !.op = "login", !.ses = s, !.name = u,
                                         !.pw = p, !.out = "invalid"]

\* The Meds tab with the form submitted: a named medicine is inserted and
\* committed, st.experimental_rerun() starts the script again and the dashboard
\* is rendered from the tables; with an empty name the run goes on.
AddMed14(s, m, sc, h, d) ==
    /\ app = "14" /\ s \in DOMAIN ses
    /\ ses[s].route = "dashboard" /\ ses[s].logged_in
    /\ h \in HourChoices15(ses[s].user_id) /\ d \in DayChoices15(ses[s].user_id)
    /\ UNCHANGED <<app, users, doses, now, reminders>>
    /\ IF m # ""
       THEN /\ Len(meds) < MaxMeds
            /\ LET committed == Append(meds, [id |-> NextId(meds),
                                              user |-> ses[s].user_id, med_name |-> m,
                                              dosage |-> "500mg", schedule |-> sc])
               IN meds' = conn_exit(committed, committed, TRUE)
            /\ Route14(s, ses[s], h, d,
                       [NoLast EXCEPT !.op = "add_med", !.id = NextId(meds)])
       ELSE /\ UNCHANGED meds
            /\ Route14(s, ses[s], h, d, [NoLast EXCEPT !.op = "add_med"])

\* The Log tab with Save log clicked: the row is inserted and committed,
\* st.experimental_rerun() starts the script again and the dashboard is
\* rendered from the tables.
LogDose14(s, med, status, t, h, d) ==
    /\ app = "14" /\ s \in DOMAIN ses
    /\ ses[s].route = "dashboard" /\ ses[s].logged_in
    /\ med \in {m.med_name : m \in Range(MedsOf15(ses[s].user_id))}
    /\ Len(doses) < MaxDoses
    /\ t \in Times /\ t >= now
    /\ doses' = InsertDose15(ses[s].user_id, SelectedMedId15(ses[s].user_id, med),
                             t, status)
    /\ now' = t
    /\ UNCHANGED <<app, users, meds, reminders>>
    /\ \E uid \in {ses[s].user_id} :
          /\ h \in HourChoices15(uid)' /\ d \in DayChoices15(uid)'
          /\ \E v \in {InsightsTab15(uid, h, d)'} :
                /\ insight' = v
                /\ ses' = [ses EXCEPT ![s].rerun = IF v.outcome \in {"NoLogs", "Risk"}
                                                   THEN FALSE ELSE @]
                /\ last' = [NoLast EXCEPT !.op = "log_dose", !.ses = s, !.user = uid,
                                          !.med = SelectedMedId15(uid, med),
                                          !.status = status, !.id = NextId(doses),
                                          !.out = v.outcome]

Next14 ==
    \/ \E r \in Routes14 : Load14("s1", r)
    \/ \E h \in SliderHours, d \in Days : Rerun14("s1", h, d)
    \/ \E u \in Usernames, p \in Passwords : Register14("s1", u, p)
    \/ \E u \in Usernames, p \in Passwords : Login14("s1", u, p)
    \/ \E m \in MedNames, sc \in Schedules, h \in SliderHours, d \in Days :
          AddMed14("s1", m, sc, h, d)
    \/ \E med \in MedNames, st \in Statuses, t \in Times, h \in SliderHours,
          d \in Days : LogDose14("s1", med, st, t, h, d)

\* The tables after init_db(), one browser tab at the home page.
Init14 ==
    /\ app = "14"
    /\ users = <<>> /\ meds = <<>> /\ doses = <<>>
    /\ ses = [s \in {"s1"} |-> Session14]
    /\ now = 0
    /\ insight = NoInsight
    /\ last = NoLast
    /\ reminders = <<>>

(* ---- the variants over the users / meds / doses tables keyed by id ----- *)
InitSql == Init13 \/ Init14 \/ Init15
NextSql == Next13 \/ Next14 \/ Next15
SpecSql == InitSql /\ [][NextSql]_vars

(* ------- src/9medi.py, src/10med.py: the page router main(), in steps --- *)
Pages10 == {"front", "login", "register", "main"}

\* One body of main() for the session state st: the page function it calls
\* (render), or the page it sets before it calls main() again (recurse).
\* src/10med.py calls profile_page where src/9medi.py calls main_page.
\* Variant: the login route sends every session to the main route.
main_body_Loop(st) ==
    CASE st.page = "front" -> [recurse |-> FALSE, page |-> st.page, render |-> "front_page"]
      [] st.page = "login" -> [recurse |-> TRUE, page |-> "main", render |-> "none"]
      [] st.page = "register" ->
            IF st.logged_in THEN [recurse |-> TRUE, page |-> "main", render |-> "none"]
            ELSE [recurse |-> FALSE, page |-> st.page, render |-> "register_page"]
      [] st.page = "main" ->
            IF st.logged_in
            THEN [recurse |-> FALSE, page |-> st.page,
                  render |-> IF app = "10med" THEN "profile_page" ELSE "main_page"]
            ELSE [recurse |-> TRUE, page |-> "login", render |-> "none"]

\* main() as the sources have it.
main_body(st) ==
    CASE st.page = "front" -> [recurse |-> FALSE, page |-> st.page, render |-> "front_page"]
      [] st.page = "login" ->
            IF st.logged_in THEN [recurse |-> TRUE, page |-> "main", render |-> "none"]
            ELSE [recurse |-> FALSE, page |-> st.page, render |-> "login_page"]
      [] st.page = "register" ->
            IF st.logged_in THEN [recurse |-> TRUE, page |-> "main", render |-> "none"]
            ELSE [recurse |-> FALSE, page |-> st.page, render |-> "register_page"]
      [] st.page = "main" ->
            IF st.logged_in
            THEN [recurse |-> FALSE, page |-> st.page,
                  render |-> IF app = "10med" THEN "profile_page" ELSE "main_page"]
            ELSE [recurse |-> TRUE, page |-> "login", render |-> "none"]

\* An interaction starts a script run of session s: main() is called.
RunStart10(s) ==
    /\ ses[s].pc = "idle"
    /\ ses' = [ses EXCEPT ![s].pc = "main", ![s].calls = 0, ![s].rendered = <<>>]
    /\ UNCHANGED <<app, users, meds, doses, now, insight, last, reminders>>

\* One body of main() in the script run of session s.
Main10(s) ==
    /\ ses[s].pc = "main"
    /\ ses[s].calls <= MaxCalls
    /\ LET r == main_body(ses[s])
       IN ses' = IF r.recurse
                 THEN [ses EXCEPT ![s].page = r.page, ![s].calls = @ + 1]
                 ELSE [ses EXCEPT ![s].pc = "page",
                                  ![s].rendered = Append(@, r.render)]
    /\ UNCHANGED <<app, users, meds, doses, now, insight, last, reminders>>

\* The page function that was called handles the click that started the run:
\* Get Started, a login that matches, Go to Register, a registration that is
\* accepted, Logout, or nothing; the run ends.
Page10(s, click) ==
    /\ ses[s].pc = "page"
    /\ LET shown == ses[s].rendered[Len(ses[s].rendered)]
           st == [ses[s] EXCEPT !.pc = "idle"]
       IN ses' = [ses EXCEPT ![s] =
            CASE shown = "front_page" /\ click = "Get Started" -> [st EXCEPT !.page = "login"]
              [] shown = "login_page" /\ click = "Login" ->
                    [st EXCEPT !.logged_in = TRUE, !.page = "main"]
              [] shown = "login_page" /\ click = "Go to Register" ->
                    [st EXCEPT !.page = "register"]
              [] shown = "register_page" /\ click = "Register" -> [st EXCEPT !.page = "login"]
              [] shown \in {"main_page", "profile_page"} /\ click = "Logout" ->
                    [st EXCEPT !.logged_in = FALSE, !.page = "login"]
              [] OTHER -> st]
    /\ UNCHANGED <<app, users, meds, doses, now, insight, last, reminders>>

NextRouter ==
    \E s \in Sessions :
       \/ RunStart10(s)
       \/ Main10(s)
       \/ \E click \in {"none", "Get Started", "Login", "Go to Register", "Register",
                        "Logout"} : Page10(s, click)

\* Two sessions, each with any page and any login state, no run started.
InitRouter ==
    /\ app \in {"9medi", "10med"}
    /\ users = <<>> /\ meds = <<>> /\ doses = <<>>
    /\ ses \in [Sessions -> {[page |-> pg, logged_in |-> li, pc |-> "idle", calls |-> 0,
                              rendered |-> <<>>] : pg \in Pages10, li \in BOOLEAN}]
    /\ now = 0
    /\ insight = NoInsight
    /\ last = NoLast
    /\ reminders = <<>>

SpecRouter == InitRouter /\ [][NextRouter]_vars

\* A script run that has called main() goes on executing it.
SpecRouterLive == SpecRouter /\ \A s \in Sessions : WF_vars(Main10(s))

(* ------------------------------ src/6medi.py ---------------------------- *)
\* The session defaults; shown is the page the last script run rendered.
Session6 == [logged_in |-> FALSE, username |-> "", page |-> "front", shown |-> "front"]

\* verify_password(password, password_hash): a str hash is encoded first
verify_password6(password, password_hash) ==
    LET h == encode(password_hash)
    IN checkpw(password, IF h.ok THEN h.v ELSE password_hash)

\* Mutant of Router6: the login, register and dashboard pages show the
\* dashboard whether or not the session is logged in.
Router6_NoGate(st) ==
    IF st.page = "front" THEN "front" ELSE "dashboard"

\* The router: the page function it calls for the session state st.
Router6(st) ==
    CASE st.page = "front" -> "front"
      [] st.page = "login" -> IF ~st.logged_in THEN "login" ELSE "dashboard"
      [] st.page = "register" -> IF ~st.logged_in THEN "register" ELSE "dashboard"
      [] st.page = "dashboard" -> IF st.logged_in THEN "dashboard" ELSE "login"

\* A script run of session s in which the router shows the page shown and the
\* page function leaves the session state st; the router has set page to
\* "login" for the dashboard page of a session that is not logged in.
Run6(s, shown, st, rec) ==
    /\ app = "6medi" /\ s \in DOMAIN ses
    /\ Router6(ses[s]) = shown
    /\ ses' = [ses EXCEPT ![s] = [st EXCEPT !.shown = shown]]
    /\ last' = [rec EXCEPT !.ses = s, !.out = shown]
    /\ UNCHANGED <<app, meds, doses, now, insight, reminders>>

\* A script run with no button clicked (a text input changed, the patient
\* form submitted).
Rerun6(s) ==
    /\ Run6(s, Router6(ses[s]),
            IF ses[s].page = "dashboard" /\ ~ses[s].logged_in
            THEN [ses[s] EXCEPT !.page = "login"] ELSE ses[s],
            [NoLast EXCEPT !.op = "view"])
    /\ UNCHANGED users

\* front_page with Get Started clicked; login_page with Register clicked;
\* register_page with Back to Login clicked.
Goto6(s, shown, page) ==
    /\ <<shown, page>> \in {<<"front", "login">>, <<"login", "register">>,
                           <<"register", "login">>}
    /\ Run6(s, shown, [ses[s] EXCEPT !.page = page], [NoLast EXCEPT !.op = "nav"])
    /\ UNCHANGED users

\* login_page with Login clicked.
Login6(s, username, password) ==
    /\ LET rows == SelectSeq(users, LAMBDA r : r.username = username)
           ok == rows # <<>> /\ verify_password6(password, rows[1].password)
       IN Run6(s, "login",
               IF ok THEN [ses[s] EXCEPT !.logged_in = TRUE, !.username = username,
                                         !.page = "dashboard"]
               ELSE [ses[s] EXCEPT !.page = "login"],
               [NoLast EXCEPT !.op = "login", !.name = username, !.pw = password,
                              !.status = IF ok THEN "ok" ELSE "invalid"])
    /\ UNCHANGED users

\* register_page with Register clicked.
Register6(s, new_username, new_password, confirm_password, salt) ==
    /\ LET created == /\ new_password = confirm_password
                      /\ SelectSeq(users, LAMBDA r : r.username = new_username) = <<>>
                      /\ new_username # "" /\ new_password # ""
       IN /\ Run6(s, "register",
                  IF created THEN [ses[s] EXCEPT !.page = "login"] ELSE ses[s],
                  [NoLast EXCEPT !.op = "register", !.name = new_username,
                                 !.status = IF created THEN "created" ELSE "refused"])
          /\ users' = IF created
                      THEN Append(users, [username |-> new_username,
                                          password |-> decode(hashpw(new_password, salt))])
                      ELSE users

\* dashboard_page with Logout clicked: the dashboard is rendered, then the
\* session is logged out.
Logout6(s) ==
    /\ Run6(s, "dashboard",
            [ses[s] EXCEPT !.logged_in = FALSE, !.username = "", !.page = "front"],
            [NoLast EXCEPT !.op = "logout"])
    /\ UNCHANGED users

Next6 ==
    \/ Rerun6("s1")
    \/ \E shown, page \in {"front", "login", "register"} : Goto6("s1", shown, page)
    \/ \E u \in Usernames7, p \in Passwords7 : Login6("s1", u, p)
    \/ \E u \in Usernames7, p, p2 \in Passwords7, salt \in Salts :
          Register6("s1", u, p, p2, salt)
    \/ Logout6("s1")

\* The empty users table, one session at the front page.
Init6 ==
    /\ app = "6medi"
    /\ users = <<>> /\ meds = <<>> /\ doses = <<>>
    /\ ses = [s \in {"s1"} |-> Session6]
    /\ now = 0
    /\ insight = NoInsight
    /\ last = NoLast
    /\ reminders = <<>>

(* ---------------- the routers that guard the dashboard ------------------ *)
\* src/15.py and src/14.py without medicines and doses, src/6medi.py.
NextGate15 ==
    \E s \in Sessions :
       \/ \E p \in {"home", "login", "reg", "dash", "logout"} : Nav15(s, p, 8, "Monday")
       \/ \E u \in Usernames, p \in Passwords :
             RegisterAs15(s, u, p, [NoLast EXCEPT !.name = u])
       \/ \E u \in Usernames, p \in Passwords :
             LoginAs15(s, u, p, [NoLast EXCEPT !.name = u, !.pw = p])
       \/ RenderDash15(s, 8, "Monday")

NextGate14 ==
    \/ \E r \in Routes14 : Load14("s1", r)
    \/ Rerun14("s1", 8, "Monday")
    \/ \E u \in Usernames, p \in Passwords : Register14("s1", u, p)
    \/ \E u \in Usernames, p \in Passwords : Login14("s1", u, p)

InitGate == Init15 \/ Init14 \/ Init6
NextGate == NextGate15 \/ NextGate14 \/ Next6
SpecGate == InitGate /\ [][NextGate]_vars

(* ------- the three user interfaces that log doses from a button -------- *)
\* src/12medi.py with the sample user logged in on the dashboard.
NextUI12 ==
    \/ \E c \in {"Dashboard", "Login"}, t \in Times : Nav12("s1", c, t)
    \/ \E t \in Times : Login12("s1", "demo", "demo", t)
    \/ \E t \in Times : AddMed12("s1", "Metformin", <<8, 0>>, t)
    \/ \E l \in Labels12, st \in Statuses, t \in Times : LogDose12("s1", l, st, t)

InitUI == Init15 \/ Init12 \/ Init1
NextUI == Next15 \/ NextUI12 \/ NextFit1
SpecUI == InitUI /\ [][NextUI]_vars

(* ------------- two browser tabs of one user logging doses --------------- *)
\* What a tab holds besides its session state: where its script run is, the
\* medication id it took from the meds it read, the number of dose rows in the
\* table when it read, the clock reading it took for the INSERT, and the row
\* its INSERT was given.
Tab == [pc |-> "idle", mid |-> 0, seen |-> 0, t |-> 0, ev |-> <<>>]

\* The row a tab's INSERT adds: the id is the table's AUTOINCREMENT value at
\* the time of the INSERT.
TabEvent(s, status) ==
    [id |-> NextId(doses),
     user |-> IF app = "15" THEN ses[s].uid ELSE ses[s].user,
     med |-> ses[s].mid, ts |-> ses[s].t,
     status |-> IF app = "15" THEN status ELSE TakenValue12(status)]

\* A script run of the Log Dose tab up to the Save click: the user's meds are
\* read and the id of the selected one is taken.
TabRead(s, choice) ==
    /\ s \in DOMAIN ses /\ ses[s].pc = "idle"
    /\ IF app = "15"
       THEN /\ choice \in {m.med_name : m \in Range(MedsOf15(ses[s].uid))}
            /\ ses' = [ses EXCEPT ![s].pc = "read", ![s].seen = Len(doses),
                                  ![s].mid = SelectedMedId15(ses[s].uid, choice)]
       ELSE /\ choice \in {MedLabel12(m) : m \in Range(get_user_meds(meds, ses[s].user))}
            /\ ses' = [ses EXCEPT ![s].pc = "read", ![s].seen = Len(doses),
                                  ![s].mid = med_dict(get_user_meds(meds, ses[s].user),
                                                      choice)]
    /\ last' = [NoLast EXCEPT !.op = "read", !.ses = s]
    /\ UNCHANGED <<app, users, meds, doses, now, insight, reminders>>

\* The arguments of the INSERT are evaluated: datetime.now() is read by the
\* script run, before the statement goes to sqlite.
TabClock(s, t) ==
    /\ s \in DOMAIN ses /\ ses[s].pc = "read"
    /\ t \in Times /\ t >= now
    /\ ses' = [ses EXCEPT ![s].pc = "args", ![s].t = t]
    /\ now' = t
    /\ last' = [NoLast EXCEPT !.op = "clock", !.ses = s]
    /\ UNCHANGED <<app, users, meds, doses, insight, reminders>>

\* Mutant of TabInsert: the table is written back as the tab read it, with the
\* new row at its end.
TabInsert_WriteBack(s, status) ==
    /\ s \in DOMAIN ses /\ ses[s].pc = "args"
    /\ Len(doses) < MaxDoses
    /\ LET ev == [TabEvent(s, status) EXCEPT !.id = ses[s].seen + 1]
       IN /\ doses' = Append(SubSeq(doses, 1, ses[s].seen), ev)
          /\ ses' = [ses EXCEPT ![s].pc = "idle", ![s].ev = <<ev>>]
          /\ last' = [NoLast EXCEPT !.op = "log_dose", !.ses = s, !.id = ev.id]
    /\ insight' = NoInsight
    /\ UNCHANGED <<app, users, meds, now, reminders>>

\* The INSERT of that script run: one sqlite statement, committed on its own.
TabInsert(s, status) ==
    /\ s \in DOMAIN ses /\ ses[s].pc = "args"
    /\ Len(doses) < MaxDoses
    /\ LET ev == TabEvent(s, status)
       IN /\ doses' = IF app = "15"
                      THEN InsertDose15(ev.user, ev.med, ev.ts, status)
                      ELSE log_dose(doses, ev.user, ev.med, ev.ts, ev.status)
          /\ ses' = [ses EXCEPT ![s].pc = "idle", ![s].ev = <<ev>>]
          /\ last' = [NoLast EXCEPT !.op = "log_dose", !.ses = s, !.id = ev.id]
    /\ insight' = NoInsight
    /\ UNCHANGED <<app, users, meds, now, reminders>>

NextTabs ==
    \E s \in Sessions :
       \/ \E c \in MedNames \cup Labels12 : TabRead(s, c)
       \/ \E t \in Times : TabClock(s, t)
       \/ \E st \in Statuses : TabInsert(s, st)

\* One registered user with the dashboard open in two tabs: a user with one
\* medicine in src/15.py, the seeded demo user in src/12medi.py.
InitTabs ==
    /\ \/ /\ app = "15"
          /\ users = << [id |-> 1, username |-> "ann", password |-> hash_pw("pw")] >>
          /\ meds = << [id |-> 1, user |-> 1, med_name |-> "Metformin",
                        dosage |-> "500mg", schedule |-> "Morning"] >>
          /\ ses = [s \in Sessions |->
                      [uid |-> 1, page |-> "dash", rerun |-> FALSE, pc |-> Tab.pc,
                       mid |-> Tab.mid, seen |-> Tab.seen, t |-> Tab.t,
                       ev |-> Tab.ev]]
       \/ /\ app = "12medi"
          /\ users = SeedUsers12(<<>>)
          /\ meds = SeedMedsOf12(<<>>, <<>>)
          /\ ses = [s \in Sessions |->
                      [logged_in |-> TRUE, user |-> "demo", page |-> "Dashboard",
                       pc |-> Tab.pc, mid |-> Tab.mid, seen |-> Tab.seen,
                       t |-> Tab.t, ev |-> Tab.ev]]
    /\ doses = <<>>
    /\ now = 0
    /\ insight = NoInsight
    /\ last = NoLast
    /\ reminders = <<>>

(* --------------------------- specifications ----------------------------- *)
Init == Init15 \/ Init12 \/ Init4

Next == Next15 \/ Next12 \/ Next4

\* The three applications, driven through their user interfaces.
Spec == Init /\ [][Next]_vars

\* src/15.py alone, driven through its user interface.
Spec15 == Init15 /\ [][Next15]_vars
Spec4 == Init4 /\ [][Next4]_vars

\* The store helpers of src/12medi.py, called with any arguments.
SpecStore == InitStore /\ [][NextStore]_vars

\* Registration, login and logout of src/15.py, src/7medi.py (both with two
\* sessions), src/5medi.py and src/4medi.py.
InitAuth == InitAuth15 \/ Init7 \/ Init5 \/ Init4
NextAuth == NextAuth15 \/ Next7 \/ Next5 \/ NextAuth4
SpecAuth == InitAuth /\ [][NextAuth]_vars

\* The operator console of src/1medipredict.py.
Spec1 == Init1 /\ [][Next1]_vars

\* Two tabs of one user, their script runs interleaved statement by statement.
SpecTabs == InitTabs /\ [][NextTabs]_vars

(* ------------------------------- properties ----------------------------- *)
\* The user's dose events as the application lists them.
ListByUser(u) == IF app = "15" THEN ListByUser15(u) ELSE get_logs(doses, u)

\* The status a stored row stands for: the text of src/15.py, the taken flag of
\* src/12medi.py (1 = taken, 0 = missed).
StatusLabel(e) ==
    IF app = "15" THEN e.status
    ELSE IF e.status = 1 THEN "Taken"
    ELSE IF e.status = 0 THEN "Missed"
    ELSE "other"

\* Whether medication med is a row of the medication table owned by user u.
Owns(u, med) == \E i \in 1..Len(meds) : meds[i].id = med /\ meds[i].user = u

\* C1: right after a dose is logged from the dashboard, the list of the user's
\* events holds the new event exactly once, with the status that was submitted.
C1_AppendThenList ==
    last.op = "log_dose" =>
       LET L == ListByUser(last.user)
           new == {i \in 1..Len(L) : L[i].id = last.id}
       IN /\ Cardinality(new) = 1
          /\ \A i \in new : /\ StatusLabel(L[i]) = last.status
                            /\ L[i].med = last.med
                            /\ L[i].user = last.user

\* C1 witness: a second event has just been logged by a user.
C1_Witness ==
    /\ last.op = "log_dose"
    /\ Len(ListByUser(last.user)) = 2
    /\ last.status = "Missed"

\* C2: a log_dose call whose medication is not the user's, or whose status is
\* neither taken nor missed, fails with a validation error and stores no event.
C2_AppendValidates ==
    (/\ last.op = "log_dose"
     /\ \/ ~Owns(last.user, last.med)
        \/ last.status \notin {0, 1})
    => /\ last.out = "ValidationError"
       /\ \A i \in 1..Len(doses) : doses[i].id # last.id

\* C3: in every reachable state the medication of every dose event is a
\* medication of the event's user.
C3_EventMedOwned ==
    \A i \in 1..Len(doses) : Owns(doses[i].user, doses[i].med)

\* C3 witness: two users have each logged a dose, both with medications.
C3_Witness ==
    /\ Cardinality({doses[i].user : i \in 1..Len(doses)}) = 2
    /\ Cardinality({meds[i].user : i \in 1..Len(meds)}) = 2

\* C4: no step removes, reorders or changes a stored dose event; the log only
\* grows at its end.
C4_AppendOnly ==
    [][/\ Len(doses') >= Len(doses)
       /\ \A i \in 1..Len(doses) : doses'[i] = doses[i]]_vars

\* C4 witness: the log holds an event and an operation other than logging has
\* run after it.
C4_Witness ==
    /\ Len(doses) = 2
    /\ last.op \in {"add_med", "logout", "login", "view"}

\* C5 as stated: every stored dose record, the reminders of src/4medi.py
\* included, has the status taken or missed; none is stored as pending.
C5_StatusTakenOrMissed ==
    /\ \A i \in 1..Len(doses) : StatusLabel(doses[i]) \in Statuses
    /\ \A i \in 1..Len(reminders) : reminders[i].taken \in {0, 1}

\* C5 amended: every row of the dose tables of src/15.py and src/12medi.py has
\* the status taken or missed; a reminder of src/4medi.py is stored with
\* taken = None and holds 0 or 1 once the patient has marked it.
C5_Amended ==
    /\ \A i \in 1..Len(doses) : StatusLabel(doses[i]) \in Statuses
    /\ \A i \in 1..Len(reminders) : reminders[i].taken \in {None4, 0, 1}
    /\ (last.op = "add_reminder" /\ last.out = "added"
           => reminders[last.id].taken = None4)
    /\ (last.op = "mark" => reminders[last.id].taken \in {0, 1})

\* C5 witness: one reminder is still unmarked and another one has been marked.
C5_Witness ==
    /\ \E i \in 1..Len(reminders) : reminders[i].taken = None4
    /\ \E i \in 1..Len(reminders) : reminders[i].taken \in {0, 1}

\* The label classes of a frame of dose events.
LabelsOf(logs) == {StatusLabel(logs[i]) : i \in 1..Len(logs)}

\* The keys under which the registered users own rows.
UserKeys == IF app = "15" THEN {users[i].id : i \in 1..Len(users)}
            ELSE {users[i].username : i \in 1..Len(users)}

\* The slot labels of the medications in the events the last view was fitted on.
SeenSlots == {time_of_day_of(get_user_meds(meds, insight.user), insight.logs[j].med) :
              j \in 1..Len(insight.logs)}

\* C6: a fit on events of one label class fails with the insufficient-data
\* error and leaves no fitted model behind.
C6_OneClassFitFails ==
    (insight.op = "view" /\ Cardinality(LabelsOf(insight.logs)) = 1)
    => /\ insight.outcome = "InsufficientDataError"
       /\ insight.est = "Unfit"
       /\ insight.risk = <<>>

C8_OneClassInsights ==
    (insight.op = "view" /\ Cardinality(LabelsOf(insight.logs)) = 1)
    => /\ insight.outcome = "InsufficientData"
       /\ (app = "15" => insight.heat = HeatRows15(insight.logs))

\* C9: the list of a user without events is the empty sequence, and the
\* insights view of such a user ends with the no-logs message, without an
\* error and without a model.
C9_EmptyLog ==
    /\ \A u \in UserKeys :
          (\A i \in 1..Len(doses) : doses[i].user # u) => ListByUser(u) = <<>>
    /\ (insight.op = "view" /\ insight.logs = <<>>
           => /\ insight.outcome = "NoLogs"
              /\ insight.est = "Unfit"
              /\ insight.risk = <<>>)

\* C9 witness: a user without events views the insights while another user
\* has events in the log.
C9_Witness ==
    /\ insight.op = "view"
    /\ insight.logs = <<>>
    /\ insight.outcome = "NoLogs"
    /\ doses # <<>>

\* C10: every row of the next-24h frame of src/12medi.py gets a probability,
\* and a row whose slot label was not among the fitted events is encoded as
\* all zeros.
C10_UnseenSlotLabel ==
    (app = "12medi" /\ insight.est = "Fit")
    => /\ insight.outcome = "Risk"
       /\ Len(insight.risk) = 24
       /\ \A i \in 1..Len(insight.risk) :
             LET r == insight.risk[i]
                 label == future(now)[i].time_of_day
             IN /\ r.kind = "prob"
                /\ DOMAIN r.vec = SeenSlots
                /\ \A c \in SeenSlots : r.vec[c] = IF c = label THEN 1 ELSE 0

\* C10 witness: the frame of a fitted view holds a slot label that was fitted
\* and one that was not, and both rows have a probability.
C10_Witness ==
    /\ app = "12medi" /\ insight.est = "Fit"
    /\ \E i, j \in 1..Len(insight.risk) :
          /\ future(now)[i].time_of_day \in SeenSlots
          /\ future(now)[j].time_of_day \notin SeenSlots
          /\ insight.risk[i].kind = "prob"
          /\ insight.risk[j].kind = "prob"

\* The row each tab inserted is in the log exactly once and as inserted, and
\* all event ids are distinct.
TabsLogIntact ==
    /\ \A s \in DOMAIN ses :
          ses[s].ev # <<>> =>
             /\ Cardinality({i \in 1..Len(doses) : doses[i].id = ses[s].ev[1].id}) = 1
             /\ \E i \in 1..Len(doses) : doses[i] = ses[s].ev[1]
    /\ \A i, j \in 1..Len(doses) : doses[i].id = doses[j].id => i = j
    /\ \A s1, s2 \in DOMAIN ses :
          (s1 # s2 /\ ses[s1].ev # <<>> /\ ses[s2].ev # <<>>)
             => ses[s1].ev[1].id # ses[s2].ev[1].id

\* C11: when two tabs of one user log doses with their script runs interleaved
\* in any order, every insert succeeds on its own: the row each tab inserted
\* is in the log exactly once and as inserted, all event ids are distinct, and
\* no step changes a row that was stored before it.
C11_ConcurrentAppends ==
    /\ []TabsLogIntact
    /\ [][\A i \in 1..Len(doses) : i <= Len(doses') /\ doses'[i] = doses[i]]_vars

\* C11 witness: both tabs have inserted, and one of them inserted after the
\* other tab's insert came between its read and its own insert.
C11_Witness ==
    /\ \A s \in DOMAIN ses : ses[s].ev # <<>>
    /\ \E s \in DOMAIN ses : ses[s].ev[1].id > ses[s].seen + 1

\* The users a view can have been rendered for: the user it was opened for,
\* any patient for the Risk Prediction page, which is opened for no patient.
ViewUsers ==
    IF app = "1medipredict" /\ insight.user = NoUid
    THEN {doses[i].user : i \in 1..Len(doses)} \cup {NoUid}
    ELSE {insight.user}

\* C12: the events a view reads for its heat-map and its risk model are
\* exactly the events of one user, the user the view is for; the events of
\* other users are not among them.
C12_ReadsFilteredByUser ==
    insight.op = "view" =>
       \E u \in ViewUsers :
          insight.logs = SelectSeq(doses, LAMBDA e : e.user = u)

\* C13: the list of a user's events is ordered by time: an event at an earlier
\* position has the earlier or the same timestamp.
C13_ListOrderedByTime ==
    \A u \in UserKeys :
       LET L == ListByUser(u)
       IN \A i, j \in 1..Len(L) : i < j => L[i].ts <= L[j].ts

\* The number of dose events of user u at weekday d, hour h, with status st.
EventsAt(u, d, h, st) ==
    Cardinality({i \in 1..Len(doses) :
                   /\ doses[i].user = u
                   /\ day_name(doses[i].ts) = d
                   /\ hour(doses[i].ts) = h
                   /\ doses[i].status = st})

\* C14: in the heat-map of a view of src/15.py, every (day, hour, status) with
\* events of the user has exactly one row, whose count is the number of those
\* events, and a combination without events has no row.
C14_HeatCounts ==
    (app = "15" /\ insight.op = "view" /\ insight.logs # <<>>) =>
       /\ \A r \in insight.heat :
             /\ r.day \in Range(DayNames) /\ r.hour \in 0..23 /\ r.status \in Statuses
             /\ r.count > 0
             /\ r.count = EventsAt(insight.user, r.day, r.hour, r.status)
       /\ \A r1, r2 \in insight.heat :
             (r1.day = r2.day /\ r1.hour = r2.hour /\ r1.status = r2.status)
                => r1 = r2
       /\ \A i \in 1..Len(doses) :
             doses[i].user = insight.user
                => \E r \in insight.heat : /\ r.day = day_name(doses[i].ts)
                                            /\ r.hour = hour(doses[i].ts)
                                            /\ r.status = doses[i].status

\* C14 witness: a view whose heat-map has, for one day and hour, a row of
\* taken doses and a row of missed doses.
C14_Witness ==
    /\ app = "15" /\ insight.op = "view"
    /\ \E r1, r2 \in insight.heat :
          /\ r1.day = r2.day /\ r1.hour = r2.hour
          /\ r1.status = "Taken" /\ r2.status = "Missed"

\* C15: a step that renders the insights without logging a dose leaves the
\* dose log unchanged, and when the insights of the same user were on the page
\* before it, the heat-map, the fit and its classes are the same, and every
\* risk query with the same inputs has the same result.
C15_InsightsIdempotent ==
    [][(insight'.op = "view" /\ last'.op # "log_dose") =>
          /\ doses' = doses
          /\ (insight.op = "view" /\ insight.user = insight'.user) =>
                /\ insight'.logs = insight.logs
                /\ insight'.heat = insight.heat
                /\ insight'.est = insight.est
                /\ insight'.classes = insight.classes
                /\ Len(insight'.risk) = Len(insight.risk)
                /\ \A i \in 1..Len(insight.risk) :
                      (/\ insight'.risk[i].cat = insight.risk[i].cat
                       /\ insight'.risk[i].num = insight.risk[i].num)
                      => insight'.risk[i] = insight.risk[i]]_vars

\* C15 witness: in src/12medi.py the dashboard, whose every render shows the
\* insights, has been rendered again by a form that logs no dose, with a
\* fitted model on the page.
C15_Witness ==
    /\ app = "12medi"
    /\ last.op = "add_med"
    /\ insight.op = "view" /\ insight.est = "Fit"

\* No two rows of the user store have the same username.
UsernamesUnique ==
    \A i, j \in 1..Len(users) : users[i].username = users[j].username => i = j

\* C16: however the registrations of the sessions interleave, no two users
\* have the same username, no step changes or removes a stored user, and a
\* registration for a username that is in the store adds nothing and is not
\* reported as created.
C16_UniqueUsernames ==
    /\ []UsernamesUnique
    /\ [][/\ \A i \in 1..Len(users) : i <= Len(users') /\ users'[i] = users[i]
          /\ (/\ last'.op = "register"
              /\ \E i \in 1..Len(users) : users[i].username = last'.name)
             => users' = users /\ last'.out # "created"]_vars

\* C16 witness: in src/7medi.py two sessions passed the test for the same free
\* username, one registered it, and the other one's commit was refused.
C16_Witness ==
    /\ app = "7medi"
    /\ last.op = "register" /\ last.out = "IntegrityError"
    /\ \E i \in 1..Len(users) : users[i].username = last.name

\* Whether the stored credential of a user row was made from password p.
Matches(row, p) ==
    IF app \in {"7medi", "5medi", "6medi"} THEN row.password.pw = p
    ELSE row.password = hash_pw(p)

\* Whether session s is logged in, and the username it is bound to.
LoggedIn(s) ==
    CASE app = "15" -> ses[s].uid # NoUid
      [] app = "4medi" -> ses[s].logged
      [] OTHER -> ses[s].logged_in
SessionUser(s) ==
    CASE app = "15" -> users[ses[s].uid].username
      [] app = "12medi" -> ses[s].user
      [] OTHER -> ses[s].username

\* C19: a login with the username and password of a registered user succeeds
\* and binds the session to that user; a login with another password, or for
\* a username that is not registered, fails and leaves the session logged out.
C19_RegisterLoginRoundTrip ==
    last.op = "login" =>
       IF \E i \in 1..Len(users) :
             users[i].username = last.name /\ Matches(users[i], last.pw)
       THEN /\ last.out = "ok"
            /\ LoggedIn(last.ses)
            /\ SessionUser(last.ses) = last.name
       ELSE /\ last.out # "ok"
            /\ ~LoggedIn(last.ses)

\* C17: no step removes a user or changes the id, username or password hash of
\* one; only Save Profile changes a stored user at all, and it changes the row
\* of the username bound to the saving session and no other row.
C17_ProfileOnlyUpdate ==
    [][/\ Len(users') >= Len(users)
       /\ \A i \in 1..Len(users) :
             /\ users'[i].id = users[i].id
             /\ users'[i].username = users[i].username
             /\ users'[i].password = users[i].password
             /\ users'[i] # users[i] =>
                   /\ last'.op = "save_profile"
                   /\ ses[last'.ses].logged_in
                   /\ users[i].username = ses[last'.ses].username]_vars

\* C17 witness: two users are registered, one has saved a profile and the
\* other's profile fields were never written.
C17_Witness ==
    /\ app = "10med"
    /\ last.op = "save_profile"
    /\ \E i, j \in 1..Len(users) :
          /\ users[i].username = last.name
          /\ users[i].doctor_name = "Dr Rao" /\ users[i].medical_notes = "asthma"
          /\ j # i /\ users[j].doctor_name = Null10

\* C18: no step changes or removes a stored medication, and a submitted
\* medicine form that stores anything stores it as one new row, also when the
\* user has a medicine of that name.
C18_MedsAppendOnly ==
    [][/\ \A i \in 1..Len(meds) : i <= Len(meds') /\ meds'[i] = meds[i]
       /\ (last'.op = "add_med" /\ last'.out \in {"stop", "ok"})
             => /\ Len(meds') = Len(meds) + 1
                /\ meds'[Len(meds')].id = last'.id]_vars

\* C18 witness: a user who has a medicine submitted the form with the same name
\* and another dosage, and holds both rows.
C18_Witness ==
    /\ last.op = "add_med" /\ last.id = Len(meds)
    /\ \E i \in 1..(Len(meds) - 1) :
          /\ meds[i].user = meds[Len(meds)].user
          /\ meds[i].med_name = meds[Len(meds)].med_name
          /\ meds[i].dosage # meds[Len(meds)].dosage

\* C20: when the log that is read is empty, the flow ends with its explicit
\* no-logs message, without calling fit and without an estimator; and fit is
\* never called with zero rows.
C20_NoFitOnZeroRows ==
    insight.op \in {"view", "train"}
    => /\ insight.fit_rows # 0
       /\ insight.logs = <<>>
             => /\ insight.outcome \in {"NoLogs", "NeedLogs"}
                /\ insight.fit_rows = NoFit
                /\ insight.est = "Unfit"

\* C20 witness: train_predictor of src/12medi.py was called with the empty
\* logs frame of a user while the log holds events of another user.
C20_Witness ==
    /\ app = "store"
    /\ insight.op = "train" /\ insight.logs = <<>>
    /\ insight.outcome = "NeedLogs"
    /\ doses # <<>>

\* Whether a stored dose event stands for a taken dose: the status text of
\* src/15.py and src/1medipredict.py, the taken flag of src/12medi.py.
IsTaken(e) == IF app \in {"15", "1medipredict"} THEN e.status = "Taken"
              ELSE e.status = 1

\* Whether a label of the column handed to the estimator is 1: the boolean
\* miss column of src/15.py holds True for 1 and False for 0.
IsOne(v) == IF app = "15" THEN v = TRUE ELSE v = 1

\* C21: the label column the feature builder makes has one label for every
\* event of the input, 1 when the event's status is Taken and 0 when it is
\* Missed.
C21_LabelOneIsTaken ==
    (insight.op \in {"view", "train"} /\ insight.y # <<>>)
    => /\ Len(insight.y) = Len(insight.logs)
       /\ \A i \in 1..Len(insight.y) : IsOne(insight.y[i]) <=> IsTaken(insight.logs[i])

\* C21 amended: the label column has one label for every event of the input
\* and the label is a function of the event's status alone; it is 1 for Taken
\* and 0 for Missed in src/12medi.py and src/1medipredict.py, and 1 (True) for
\* Missed and 0 (False) for Taken in src/15.py.
C21_Amended ==
    (insight.op \in {"view", "train"} /\ insight.y # <<>>)
    => /\ Len(insight.y) = Len(insight.logs)
       /\ \A i \in 1..Len(insight.y) :
             IF app = "15"
             THEN IsOne(insight.y[i]) <=> ~IsTaken(insight.logs[i])
             ELSE IsOne(insight.y[i]) <=> IsTaken(insight.logs[i])

\* C21 witness: the Insights tab of src/15.py has built the label column of a
\* log with a taken and a missed dose: False for the taken, True for the missed.
C21_Witness ==
    /\ app = "15" /\ insight.op = "view"
    /\ Len(insight.y) = Len(insight.logs)
    /\ \E i, j \in 1..Len(insight.y) :
          /\ insight.logs[i].status = "Taken" /\ insight.y[i] = FALSE
          /\ insight.logs[j].status = "Missed" /\ insight.y[j] = TRUE

\* What a view shows was computed from the user's events in the table: the
\* frame is the user's events, and a fitted estimator was given one row and
\* one label for each of them.
FitOnFullLog ==
    /\ insight.logs = ListByUser(insight.user)
    /\ insight.est = "Fit" => /\ insight.fit_rows = Len(insight.logs)
                              /\ Len(insight.y) = Len(insight.logs)
    /\ insight.risk # <<>> => insight.est = "Fit"

\* C22: every insights view refits the estimator from the full log: after a
\* step that renders a view, the frame of the view is exactly the user's
\* events in the table after the step, and the estimator that answers the risk
\* query was fitted in that view on one row for each of them; a step that
\* appends a dose leaves no view of an older log on the page.
C22_RefitOnEveryView ==
    [][/\ insight'.op = "view" => FitOnFullLog'
       /\ (doses' # doses /\ insight'.op = "view") => insight'.logs # insight.logs]_vars

\* C22 witness: a risk query was answered by an estimator fitted on both of
\* the user's events, the second of them logged in the step of the view.
C22_Witness ==
    /\ app = "12medi" /\ last.op = "log_dose"
    /\ insight.op = "view" /\ insight.est = "Fit" /\ insight.fit_rows = 2
    /\ \E i \in 1..Len(insight.risk) : insight.risk[i].kind = "prob"

\* C23: one click on the save/log button appends exactly one dose event and
\* leaves the earlier events as they were; a script run without that click
\* (navigation, a view, another form) appends no dose event, and a script run
\* without the add-medication submit appends no medication once the store
\* holds the sample user of src/12medi.py; one submit adds at most one.
C23_OneClickOneEvent ==
    [][/\ last'.op = "log_dose"
             => /\ Len(doses') = Len(doses) + 1
                /\ SubSeq(doses', 1, Len(doses)) = doses
       /\ last'.op # "log_dose" => doses' = doses
       /\ (last'.op # "add_med" /\ (app = "12medi" => ~NoUser12(users, "demo")))
             => meds' = meds
       /\ (last'.op = "add_med" /\ (app = "12medi" => ~NoUser12(users, "demo")))
             => /\ Len(meds') <= Len(meds) + 1
                /\ SubSeq(meds', 1, Len(meds)) = meds]_vars

\* C23 witness: a dose was logged by one click and the page was rendered
\* again afterwards, with the one event in the table.
C23_Witness ==
    /\ Len(doses) = 1
    /\ last.op = "view"
    /\ insight.op = "view" /\ Len(insight.logs) = 1

\* The last script run handled the add-medication form submitted with a
\* medicine name: src/14.py and src/15.py give an id to a named medicine only,
\* src/13.py runs the INSERT whatever the name.
NamedSubmit == /\ last.op = "add_med" /\ last.id # 0
               /\ app = "13" => last.name # ""

\* C24: after the add-medication form is submitted with a medicine name, a
\* row with the id of the new medication is in the table for the session's
\* user, and no later step removes or changes a row of the medication table.
C24_AddedMedStored ==
    /\ [](NamedSubmit
            => \E i \in 1..Len(meds) : /\ meds[i].id = last.id
                                       /\ meds[i].user = last.user)
    /\ [][\A i \in 1..Len(meds) : Len(meds') >= i /\ meds'[i] = meds[i]]_vars

\* C25: no script run of src/14.py or src/15.py ends with the session flag
\* rerun still True: a handler that sets it is followed, in the same run, by
\* the deferred handler that resets it.
C25_RerunFlagCleared ==
    app \in {"14", "15"} => \A s \in DOMAIN ses : ~ses[s].rerun

\* The medications the auto-seed of src/12medi.py wrote, by their dose texts.
SeededMeds == SelectSeq(meds, LAMBDA m : m.user = "demo" /\ m.dosage \in {"500 mg", "20 mg"})

\* C26: the store never holds two users named demo, and whenever no run of
\* main() is inside the auto-seed and main() has run, it holds exactly one
\* user demo and exactly the two seeded medications of demo, whatever else
\* the users, demo among them, have added.
C26_SeedOnce ==
    /\ Cardinality({i \in 1..Len(users) : users[i].username = "demo"}) <= 1
    /\ Len(SeededMeds) <= 2
    /\ (last.op # "init" /\ \A s \in DOMAIN ses : ses[s].pc = "idle")
          => /\ Cardinality({i \in 1..Len(users) : users[i].username = "demo"}) = 1
             /\ [i \in 1..Len(SeededMeds) |-> SeededMeds[i].med_name]
                   = <<"Metformin", "Atorvastatin">>

\* C26 witness: the store is seeded, demo has added a medicine of their own
\* and main() has run once more, without seeding.
C26_Witness ==
    /\ app = "12seed"
    /\ last.op = "main" /\ last.out = "skip"
    /\ \A s \in DOMAIN ses : ses[s].pc = "idle"
    /\ Len(SelectSeq(meds, LAMBDA m : m.user = "demo")) = 3
    /\ Len(SeededMeds) = 2

\* Whether the last script run of session s rendered the dashboard.
DashShown(s) ==
    IF app = "6medi" THEN ses[s].shown = "dashboard"
    ELSE last.ses = s /\ insight.op = "view"

\* C27: a script run renders the dashboard only for a session that is logged
\* in when the run starts; a session becomes logged in only in a run that
\* handles a login whose username and password match a stored user; a logout
\* leaves the session logged out, so the dashboard is not rendered again
\* before the next such login.
C27_DashboardGated ==
    [][\A s \in DOMAIN ses :
          /\ (last'.ses = s /\ DashShown(s)') => LoggedIn(s)
          /\ (~LoggedIn(s) /\ LoggedIn(s)')
                => /\ last'.op = "login" /\ last'.ses = s
                   /\ \E i \in 1..Len(users) : /\ users[i].username = last'.name
                                               /\ Matches(users[i], last'.pw)
          /\ (last'.op = "logout" /\ last'.ses = s) => ~LoggedIn(s)']_vars

\* C27 witness: with two users registered, a session of src/6medi.py is logged
\* in and a script run without a click has rendered the dashboard.
C27_Witness ==
    /\ app = "6medi"
    /\ ses["s1"].logged_in /\ ses["s1"].shown = "dashboard"
    /\ last.op = "view"
    /\ Len(users) = 2

\* The text under which the Log Dose selectbox offers the medication m, and
\* the medications it offers to user u.
OptionLabel(m) == IF app = "12medi" THEN MedLabel12(m) ELSE m.med_name
OptionsOf(u) == IF app = "12medi" THEN get_user_meds(meds, u) ELSE MedsOf15(u)

\* C28: the event the log-dose action has written carries the id of the
\* medication the user selected: whichever medication of the user the
\* selected option stands for, the event's medication id is that
\* medication's id, also when two of the user's medications have one name.
C28_EventCarriesSelectedMed ==
    (app \in {"15", "14", "12medi"} /\ last.op = "log_dose")
    => /\ doses[Len(doses)].med = last.med
       /\ \A m, sel \in Range(OptionsOf(last.user)) :
             (sel.id = last.med /\ OptionLabel(m) = OptionLabel(sel)) => m.id = last.med

\* C29: in src/4medi.py a step changes the taken field of a reminder only
\* from None to 0 or 1, only as the Mark button of a logged-in patient to whom
\* the reminder is assigned, and changes nothing else of a reminder; a taken
\* field that is 0 or 1 is never changed again.
C29_TakenWriteOnce ==
    [][\A i \in 1..Len(reminders) :
          /\ Len(reminders') >= i
          /\ [reminders'[i] EXCEPT !.taken = None4] = [reminders[i] EXCEPT !.taken = None4]
          /\ reminders'[i].taken # reminders[i].taken
                => /\ reminders[i].taken = None4
                   /\ reminders'[i].taken \in {0, 1}
                   /\ last'.op = "mark" /\ last'.id = i
                   /\ ses[last'.ses].logged
                   /\ ses[last'.ses].role = "patient"
                   /\ ses[last'.ses].username = reminders[i].patient]_vars

\* C29 witness: a reminder was marked, and the doctor has added another
\* reminder for the same time after that.
C29_Witness ==
    /\ app = "4medi" /\ last.op = "add_reminder" /\ Len(reminders) = 2
    /\ reminders[1].taken \in {0, 1}
    /\ reminders[2].taken = None4
    /\ reminders[2].time = reminders[1].time

\* C30: from every combination of page and logged_in, a script run of the
\* router makes at most one recursive call of main() and then calls exactly
\* one page function; it does not go on between the login and main routes.
C30_RouterTerminates ==
    /\ [](\A s \in Sessions :
            /\ ses[s].calls <= 1
            /\ Len(ses[s].rendered) <= 1
            /\ ses[s].pc = "page" => Len(ses[s].rendered) = 1)
    /\ \A s \in Sessions : [](ses[s].pc = "main" => <>(ses[s].pc = "page"))

\* C30 witness: a run that started on the main page without a login has called
\* main() a second time and rendered the login page.
C30_Witness ==
    \E s \in Sessions :
       /\ ses[s].pc = "page" /\ ses[s].calls = 1
       /\ ses[s].rendered = <<"login_page">>
       /\ ~ses[s].logged_in

====
